---- MODULE Spec2Model ----
(***************************************************************************)
(* Invoice cataloger (bwhite001/Tax-Invoices): the processing pipeline of  *)
(* invoice_cataloger.py with its cache and failure stores, the expense     *)
(* categorizer, the deduction engines and the PDF extraction chain.        *)
(*                                                                         *)
(* Conventions                                                             *)
(*   - Python strings the code computes on (strip, lower, slicing,         *)
(*     substring search) are sequences of one-character strings.           *)
(*   - Python None is the value None below where a string is expected,     *)
(*     and the record NoEntry where a dict is expected.                    *)
(*   - Money is an integer number of cents; round(x, 2) is RoundSet.       *)
(*   - dicts are records; key presence is membership in DOMAIN.            *)
(*                                                                         *)
(* InvoiceCataloger.__init__ builds ExpenseCategorizer(vendor_overrides=   *)
(* ...), which the class of categorizer.py rejects (SpecCategorizer).  The *)
(* pipeline is modelled from the point where its collaborators exist, with *)
(* the categorize method the class has.                                    *)
(***************************************************************************)
EXTENDS Integers, Sequences, FiniteSets, TLC

VARIABLES
    \* ---- pipeline (InvoiceCataloger, CacheManager, FailedFilesManager)
    cache,          \* CacheManager.cache: list of cache records
    failed_files,   \* FailedFilesManager.failed_files: list of failure records
    cacheFile,      \* content of cache.json on disk
    failedFile,     \* content of failed_files.json on disk
    pc,             \* position of the process: "idle", "loop", "done", "crashed"
    files,          \* run(): the list of files being processed
    idx,            \* run(): index of the next file (1-based)
    reprocess,      \* run(): the reprocess argument
    result,         \* return value of the last process_file call
    call,           \* the last process_file call: arguments and what it invoked
    hist,           \* history: per-hash Success bookkeeping of this cache lifetime
    \* ---- pure components exercised on their own
    cat,            \* last ExpenseCategorizer construction + categorize call
    ded,            \* last deduction-engine call
    mf,             \* last _check_missing_fields call
    pdf,            \* PDFExtractor.extract_text in progress
    llmp,           \* LLMProcessor.extract_invoice_data in progress
    store,          \* a CacheManager and a FailedFilesManager used directly
    reloc,          \* a destination folder and the last relocation into it
    strat,          \* last ATOStrategy construction + calculate_deduction call
    retry           \* a path retried over several process_file calls

vars == <<cache, failed_files, cacheFile, failedFile, pc, files, idx, reprocess,
          result, call, hist, cat, ded, mf, pdf, llmp, store, reloc, strat,
          retry>>

pipelineVars == <<cache, failed_files, cacheFile, failedFile, pc, files, idx,
                  reprocess, result, call, hist>>

unitVars == <<llmp, store, reloc, strat, retry>>

(***************************************************************************)
(* Bounds of the model                                                     *)
(***************************************************************************)
MaxCache == 2       \* records the in-memory cache may reach

(***************************************************************************)
(* Python values                                                           *)
(***************************************************************************)
None == <<"<None>">>                 \* None where a str is expected
NoEntry == [IsNone |-> TRUE]         \* None where a dict is expected
Blank == " "

S_None == <<"N", "o", "n", "e">>     \* what an f-string prints for None

\* str.strip(): drop leading and trailing blanks
RECURSIVE LStrip(_)
LStrip(s) == IF s # <<>> /\ Head(s) = Blank THEN LStrip(Tail(s)) ELSE s

RECURSIVE RStrip(_)
RStrip(s) == IF s # <<>> /\ s[Len(s)] = Blank
             THEN RStrip(SubSeq(s, 1, Len(s) - 1)) ELSE s

Strip(s) == RStrip(LStrip(s))

\* str.lower() on the letters the model uses
LowerChar(c) ==
    CASE c = "A" -> "a" [] c = "G" -> "g" [] c = "L" -> "l" [] c = "U" -> "u"
      [] c = "D" -> "d" [] c = "S" -> "s" [] c = "W" -> "w" [] c = "N" -> "n"
      [] c = "J" -> "j" [] c = "B" -> "b" [] c = "H" -> "h" [] c = "F" -> "f"
      [] OTHER -> c

Lower(s) == [i \in 1..Len(s) |-> LowerChar(s[i])]

\* Python's `k in s` for strings
IsSubstring(k, s) ==
    \E i \in 0..(Len(s) - Len(k)) : SubSeq(s, i + 1, i + Len(k)) = k

\* f"{v}"
Fmt(v) == IF v = None THEN S_None ELSE v

\* round(x, 2) of the exact value num/den cents (den > 0): the nearest
\* whole numbers of cents.  Off a tie that is one value.  On an exact
\* decimal tie the binary double decides which neighbour Python returns, so
\* both are possible.
RoundSet(num, den) ==
    LET q == num \div den
    IN  {c \in {q, q + 1} :
            2 * (IF num >= c * den THEN num - c * den ELSE c * den - num) <= den}

(***************************************************************************)
(* ExpenseCategorizer  (processors/categorizer.py)                         *)
(***************************************************************************)
\* The keyword table, in its source order.  Every category of the source is
\* present; of each keyword list an excerpt is kept, in list order.
CATEGORIES == <<
    [category |-> "Food & Groceries", keywords |-> <<
        <<"w", "o", "o", "l", "w", "o", "r", "t", "h", "s">>,
        <<"c", "o", "l", "e", "s">>>>],
    [category |-> "Electronics", keywords |-> <<
        <<"j", "b", " ", "h", "i", "-", "f", "i">>,
        <<"t", "v">>>>],
    [category |-> "Software & Subscriptions", keywords |-> <<
        <<"s", "o", "f", "t", "w", "a", "r", "e">>,
        <<"i", "d", "e">>,
        <<"g", "i", "t", "h", "u", "b">>>>],
    [category |-> "Computer Equipment", keywords |-> <<
        <<"l", "a", "p", "t", "o", "p">>,
        <<"d", "e", "l", "l">>,
        <<"r", "a", "m">>>>],
    [category |-> "Electricity", keywords |-> <<
        <<"e", "n", "e", "r", "g", "y">>,
        <<"a", "g", "l">>>>],
    [category |-> "Internet", keywords |-> <<
        <<"i", "n", "t", "e", "r", "n", "e", "t">>,
        <<"d", "a", "t", "a">>,
        <<"s", "u", "p", "e", "r", "l", "o", "o", "p">>>>],
    [category |-> "Phone & Mobile", keywords |-> <<
        <<"m", "o", "b", "i", "l", "e">>,
        <<"s", "i", "m">>,
        <<"a", "m", "a", "y", "s", "i", "m">>>>],
    [category |-> "Professional Development", keywords |-> <<
        <<"t", "r", "a", "i", "n", "i", "n", "g">>,
        <<"u", "d", "e", "m", "y">>>>],
    [category |-> "Professional Membership", keywords |-> <<
        <<"m", "e", "m", "b", "e", "r", "s", "h", "i", "p">>,
        <<"a", "c", "s">>>>],
    [category |-> "Office Supplies", keywords |-> <<
        <<"o", "f", "f", "i", "c", "e">>,
        <<"p", "e", "n">>>>],
    [category |-> "Communication Tools", keywords |-> <<
        <<"v", "o", "i", "p">>,
        <<"s", "l", "a", "c", "k">>>>],
    [category |-> "Transportation", keywords |-> <<
        <<"u", "b", "e", "r">>,
        <<"g", "a", "s">>>>],
    [category |-> "Clothing & Apparel", keywords |-> <<
        <<"c", "l", "o", "t", "h", "i", "n", "g">>,
        <<"w", "e", "a", "r">>>>],
    [category |-> "Health & Medical", keywords |-> <<
        <<"h", "e", "a", "l", "t", "h">>,
        <<"p", "b", "s">>>>],
    [category |-> "Home & Garden", keywords |-> <<
        <<"h", "o", "m", "e">>,
        <<"h", "a", "r", "d", "w", "a", "r", "e">>>>],
    [category |-> "Entertainment & Media", keywords |-> <<
        <<"n", "e", "t", "f", "l", "i", "x">>,
        <<"s", "t", "a", "n">>>>],
    [category |-> "Books & Publications", keywords |-> <<
        <<"b", "o", "o", "k">>,
        <<"k", "i", "n", "d", "l", "e">>>>],
    [category |-> "Insurance", keywords |-> <<
        <<"i", "n", "s", "u", "r", "a", "n", "c", "e">>,
        <<"c", "o", "v", "e", "r">>>>],
    [category |-> "Banking & Finance", keywords |-> <<
        <<"b", "a", "n", "k">>,
        <<"f", "e", "e">>>>],
    [category |-> "Utilities & Services", keywords |-> <<
        <<"u", "t", "i", "l", "i", "t", "y">>,
        <<"g", "a", "s">>>>]
>>

\* The class defines no __init__: a construction that passes any argument
\* (vendor_overrides=...) raises TypeError, one without arguments succeeds.
ExpenseCategorizer_new(kwargs) ==
    IF kwargs # {} THEN "TypeError" ELSE "ExpenseCategorizer"

\* line_items values: a list of items; an item is a dict (record) that may
\* hold a 'description'.  NoList stands for line_items=None.
NoList == <<NoEntry>>

RECURSIVE ItemText(_)
ItemText(items) ==
    IF items = <<>> THEN <<>>
    ELSE LET item == Head(items)
         IN  (IF "description" \in DOMAIN item
              THEN <<Blank>> \o Fmt(item.description) ELSE <<>>)
             \o ItemText(Tail(items))

SearchText(vendor_name, description, line_items) ==
    Lower(Fmt(vendor_name) \o <<Blank>> \o Fmt(description)
          \o ItemText(line_items))

\* A variant with a plausible defect: the table searched from its end.
RECURSIVE FirstCategory_reversed(_, _)
FirstCategory_reversed(table, text) ==
    IF table = <<>> THEN "Other"
    ELSE IF \E k \in 1..Len(table[Len(table)].keywords) :
                IsSubstring(table[Len(table)].keywords[k], text)
         THEN table[Len(table)].category
         ELSE FirstCategory_reversed(SubSeq(table, 1, Len(table) - 1), text)

RECURSIVE FirstCategory(_, _)
FirstCategory(table, text) ==
    IF table = <<>> THEN "Other"
    ELSE IF \E k \in 1..Len(Head(table).keywords) :
                IsSubstring(Head(table).keywords[k], text)
         THEN Head(table).category
         ELSE FirstCategory(Tail(table), text)

\* ExpenseCategorizer.categorize: keyword search only; "TypeError" when
\* line_items is None (iteration over None).
categorize(vendor_name, description, line_items) ==
    IF line_items = NoList THEN "TypeError"
    ELSE FirstCategory(CATEGORIES,
                       SearchText(vendor_name, description, line_items))

(***************************************************************************)
(* DeductionCalculator  (processors/deduction_calculator.py)               *)
(***************************************************************************)
work_use_percentage == 60      \* Config.work_use_percentage default 3*100//5

\* One branch of the if-chain: the possible (WorkUsePercentage,
\* DeductibleAmount, ClaimMethod) results.  ClaimMethod is kept as its label
\* and the number formatted into it.
DC_WorkUse(total, label) ==
    {[WorkUsePercentage |-> work_use_percentage, DeductibleAmount |-> a,
      ClaimMethod |-> [label |-> label, arg |-> work_use_percentage]] :
        a \in RoundSet(total * work_use_percentage, 100)}

DC_Threshold(total, years) ==
    IF total <= 30000
    THEN {[WorkUsePercentage |-> work_use_percentage, DeductibleAmount |-> a,
           ClaimMethod |-> [label |-> "Immediate Deduction", arg |-> 300]] :
             a \in RoundSet(total * work_use_percentage, 100)}
    ELSE {[WorkUsePercentage |-> work_use_percentage, DeductibleAmount |-> a,
           ClaimMethod |-> [label |-> "Decline in Value", arg |-> 300]] :
             a \in RoundSet(total * work_use_percentage, 100 * years)}

DC_Full(total) ==
    {[WorkUsePercentage |-> 100, DeductibleAmount |-> total,
      ClaimMethod |-> [label |-> "Full Deduction", arg |-> 100]]}

DC_Manual ==
    {[WorkUsePercentage |-> work_use_percentage, DeductibleAmount |-> 0,
      ClaimMethod |-> [label |-> "Manual Review Required", arg |-> 0]]}

\* DeductionCalculator.calculate_deduction(invoice_data, category), as the
\* set of dicts it can return for total cents `total`.
DeductionCalculator_calculate_deduction(total, category) ==
    CASE category \in {"Electricity", "Internet", "Phone & Mobile",
                       "Communication Tools"}
            -> DC_WorkUse(total, "Actual Cost Method")
      [] category = "Software & Subscriptions" -> DC_Threshold(total, 2)
      [] category = "Computer Equipment" -> DC_Threshold(total, 3)
      [] category \in {"Professional Development", "Professional Membership"}
            -> DC_Full(total)
      [] category = "Office Supplies"
            -> DC_WorkUse(total, "Actual Cost Method OR included in Fixed Rate")
      [] OTHER -> DC_Manual

(***************************************************************************)
(* Configuration and the values the pipeline runs on                       *)
(***************************************************************************)
max_retry_attempts == 3        \* Config.max_retry_attempts
move_processed_files == TRUE   \* Config.move_processed_files

Hashes == {"h1"}
HashNone == "None"             \* calculate_file_hash returned None

\* A pathlib.Path: the folder below the financial-year folder, the parts of
\* the organised folder structure, the file name and the numeric suffix that
\* the duplicate-name loop appended to the stem (0: none).
SourcePath(folder, name) ==
    [folder |-> folder, category |-> "", year_month |-> <<>>, name |-> name,
     counter |-> 0]

\* The invoice files of the model: one file name in two folders under
\* invoice_folder (rglob descends into subfolders).
Paths == {SourcePath("", "inv.pdf"), SourcePath("inbox", "inv.pdf")}

\* The MovedTo sentinels ('N/A - Duplicate', 'N/A - Not moved'), path-shaped.
NotMoved(text) ==
    [folder |-> text, category |-> "", year_month |-> <<>>, name |-> "",
     counter |-> 0]

\* dict.get(key, default)
Get(d, key, default) == IF key \in DOMAIN d THEN d[key] ELSE default

S_Udemy == <<"U", "d", "e", "m", "y">>
S_Date == <<"2", "0", "2", "4", "-", "0", "7", "-", "1", "5">>
S_Unknown == <<"U", "n", "k", "n", "o", "w", "n">>
S_NA == <<"N", "/", "A">>

\* Records _parse_response can hand to process_file: a complete invoice, one
\* with blank vendor, no date, no number and total 0.0, and one whose
\* vendor_name came back as JSON null.
DataComplete ==
    [vendor_name |-> S_Udemy, invoice_date |-> S_Date,
     invoice_number |-> <<"7">>, total |-> 50000, line_items |-> <<>>]
DataBlank ==
    [vendor_name |-> <<Blank>>, invoice_date |-> <<>>,
     invoice_number |-> <<>>, total |-> 0, line_items |-> <<>>]
DataNullVendor ==
    [vendor_name |-> None, invoice_date |-> S_Date,
     invoice_number |-> <<"7">>, total |-> 50000, line_items |-> <<>>]

LLMRecords == {DataComplete, DataBlank, DataNullVendor}

\* What extract_text can do: raise, or return text, given by the length of
\* text.strip() (-1 stands for None).
ExtractOutcomes ==
    {[raised |-> TRUE, len |-> -1]}
    \cup {[raised |-> FALSE, len |-> n] : n \in {-1, 5, 30, 80}}

(***************************************************************************)
(* CacheManager  (utils/cache_manager.py)                                  *)
(***************************************************************************)
\* Variants of find_by_hash with a plausible defect: the last matching record
\* instead of the first, and a lookup that never hits.
RECURSIVE find_by_hash_last(_, _)
find_by_hash_last(entries, file_hash) ==
    IF entries = <<>> THEN NoEntry
    ELSE IF Get(entries[Len(entries)], "FileHash", HashNone) = file_hash
         THEN entries[Len(entries)]
         ELSE find_by_hash_last(SubSeq(entries, 1, Len(entries) - 1), file_hash)

find_by_hash_miss(entries, file_hash) == NoEntry

RECURSIVE find_by_hash(_, _)
find_by_hash(entries, file_hash) ==
    IF entries = <<>> THEN NoEntry
    ELSE IF Get(Head(entries), "FileHash", HashNone) = file_hash
         THEN Head(entries)
         ELSE find_by_hash(Tail(entries), file_hash)

add_entry(entries, file_name, file_hash, extracted_data, category, deduction) ==
    Append(entries,
           [FileName |-> file_name, FileHash |-> file_hash,
            ProcessedDate |-> "now", ExtractedData |-> extracted_data,
            Category |-> category, Deduction |-> deduction])

\* What a store file holds after open(path, 'w') was cut short.
Truncated == <<[Truncated |-> TRUE]>>

\* load(): the parsed list, [] when json.load fails.
StoreLoad(file) == IF file = Truncated THEN <<>> ELSE file

\* save(): the whole list is rewritten; an exception is swallowed and leaves
\* the old file (mkdir or open failed) or a truncated one (the dump failed).
SaveOutcomes == {"ok", "unchanged", "truncated"}
StoreSave(file, entries, outcome) ==
    CASE outcome = "ok" -> entries
      [] outcome = "unchanged" -> file
      [] OTHER -> Truncated

(***************************************************************************)
(* FailedFilesManager  (utils/cache_manager.py)                            *)
(***************************************************************************)
RECURSIVE find_by_path(_, _)
find_by_path(entries, file_path) ==
    IF entries = <<>> THEN NoEntry
    ELSE IF Get(Head(entries), "FilePath", NoEntry) = file_path
         THEN Head(entries)
         ELSE find_by_path(Tail(entries), file_path)

\* add_failure: update the existing record in place, else append a new one.
\* `now` is what datetime.now().strftime(...) returns during the call.
\* A variant with a plausible defect: the update rewrites the whole record,
\* FirstAttempt included.
UpdateFailure_restamp(entries, file_path, error_reason, attempt_count, now) ==
    [i \in 1..Len(entries) |->
        IF Get(entries[i], "FilePath", NoEntry) = file_path
        THEN [FilePath |-> file_path,
              FileName |-> Get(entries[i], "FileName", <<>>),
              ErrorReason |-> error_reason, AttemptCount |-> attempt_count,
              FirstAttempt |-> now, LastAttempt |-> now]
        ELSE entries[i]]

RECURSIVE UpdateFailure(_, _, _, _, _)
UpdateFailure(entries, file_path, error_reason, attempt_count, now) ==
    IF entries = <<>> THEN <<>>
    ELSE IF Get(Head(entries), "FilePath", NoEntry) = file_path
         THEN <<[k \in DOMAIN Head(entries)
                       \cup {"AttemptCount", "LastAttempt", "ErrorReason"} |->
                    CASE k = "AttemptCount" -> attempt_count
                      [] k = "LastAttempt" -> now
                      [] k = "ErrorReason" -> error_reason
                      [] OTHER -> Head(entries)[k]]>>
              \o Tail(entries)
         ELSE <<Head(entries)>>
              \o UpdateFailure(Tail(entries), file_path, error_reason,
                               attempt_count, now)

\* A variant with a plausible defect: a failure is always appended.
add_failure_append(entries, file_path, file_name, error_reason, attempt_count, now) ==
    Append(entries,
           [FilePath |-> file_path, FileName |-> file_name,
            ErrorReason |-> error_reason, AttemptCount |-> attempt_count,
            FirstAttempt |-> now, LastAttempt |-> now])

add_failure(entries, file_path, file_name, error_reason, attempt_count, now) ==
    IF find_by_path(entries, file_path) # NoEntry
    THEN UpdateFailure(entries, file_path, error_reason, attempt_count, now)
    ELSE Append(entries,
                [FilePath |-> file_path, FileName |-> file_name,
                 ErrorReason |-> error_reason,
                 AttemptCount |-> attempt_count,
                 FirstAttempt |-> now, LastAttempt |-> now])

\* Variants with a plausible defect: a removal that removes nothing, and a
\* candidate filter that admits a count equal to the ceiling.
remove_failure_noop(entries, file_path) == entries

get_retry_candidates_le(entries, max_attempts) ==
    SelectSeq(entries, LAMBDA e : Get(e, "AttemptCount", 0) <= max_attempts)

remove_failure(entries, file_path) ==
    SelectSeq(entries, LAMBDA e : Get(e, "FilePath", NoEntry) # file_path)

get_retry_candidates(entries, max_attempts) ==
    SelectSeq(entries, LAMBDA e : Get(e, "AttemptCount", 0) < max_attempts)

(***************************************************************************)
(* InvoiceCataloger  (invoice_cataloger.py)                                *)
(***************************************************************************)
\* _check_missing_fields: raised is TRUE when .strip() is called on None.
\* The checks run in source order, so the first None met raises.
MissingList(data) ==
    (IF Strip(Get(data, "vendor_name", <<>>)) = <<>>
     THEN <<"Vendor Name">> ELSE <<>>)
    \o (IF Strip(Get(data, "invoice_date", <<>>)) = <<>>
        THEN <<"Invoice Date">> ELSE <<>>)
    \o (IF Get(data, "total", 0) = 0 THEN <<"Total Amount">> ELSE <<>>)
    \o (IF Strip(Get(data, "invoice_number", <<>>)) = <<>>
        THEN <<"Invoice Number (bonus)">> ELSE <<>>)

check_missing_fields(data) ==
    IF \/ Get(data, "vendor_name", <<>>) = None
       \/ Get(data, "invoice_date", <<>>) = None
       \/ Get(data, "invoice_number", <<>>) = None
    THEN [raised |-> TRUE, needs_review |-> FALSE, missing_fields |-> <<>>]
    ELSE LET missing == MissingList(data)
         IN  [raised |-> FALSE,
              needs_review |->
                  Len(SelectSeq(missing,
                                LAMBDA f : f # "Invoice Number (bonus)")) > 0,
              missing_fields |-> missing]

\* _is_non_invoice(None, text)
is_non_invoice(text_len) == text_len < 50

\* _is_non_invoice(extracted_data, text) for a record: no vendor and no
\* amount.  process_file never makes this call: its only call passes None
\* (line 340).  raised is the AttributeError of None.strip().
is_non_invoice_data(data) ==
    IF Get(data, "vendor_name", <<>>) = None
    THEN [raised |-> TRUE, value |-> FALSE]
    ELSE [raised |-> FALSE,
          value |-> Strip(Get(data, "vendor_name", <<>>)) = <<>>
                    /\ Get(data, "total", 0) = 0]

\* move_processed_file: destination output_folder/category/year_month/name,
\* the stem suffixed by the first free counter (`taken` names are in use);
\* the original path when the move fails.
move_processed_file(file_path, category, invoice_date, taken, ok) ==
    IF ~move_processed_files \/ ~ok THEN file_path
    ELSE [folder |-> "Processed", category |-> category,
          year_month |-> IF invoice_date # <<>> /\ invoice_date # None
                            /\ Len(invoice_date) >= 7
                         THEN SubSeq(invoice_date, 1, 7) ELSE S_Unknown,
          name |-> file_path.name, counter |-> taken]

\* move_non_invoice
move_non_invoice(file_path, taken, ok) ==
    IF ~ok THEN file_path
    ELSE [folder |-> "Processed", category |-> "Non-Invoice",
          year_month |-> <<>>, name |-> file_path.name, counter |-> taken]

\* _create_failed_entry
create_failed_entry(file_path, file_hash, error_reason, status) ==
    [FileName |-> file_path.name, FilePath |-> file_path,
     OriginalPath |-> file_path, VendorName |-> S_NA,
     InvoiceNumber |-> <<>>, InvoiceDate |-> <<>>, TotalAmount |-> 0,
     Category |-> "Non-Invoice/Other", WorkUsePercentage |-> 0,
     DeductibleAmount |-> 0,
     ClaimMethod |-> [label |-> "Not Applicable", arg |-> 0],
     ClaimNotes |-> error_reason, ProcessingStatus |-> status,
     FileHash |-> file_hash, MovedTo |-> NotMoved("N/A - Not moved"),
     NeedsManualReview |-> TRUE, MissingFields |-> <<>>]

\* The keys the cache-hit branch indexes on a cached record.
CacheKeys == {"FileName", "ProcessedDate", "ExtractedData", "Category",
              "Deduction"}

cached_result(file_path, file_hash, cached_entry) ==
    [FileName |-> file_path.name, FilePath |-> file_path,
     OriginalPath |-> file_path,
     VendorName |-> Get(cached_entry.ExtractedData, "vendor_name", <<>>),
     InvoiceNumber |-> Get(cached_entry.ExtractedData, "invoice_number", <<>>),
     InvoiceDate |-> Get(cached_entry.ExtractedData, "invoice_date", <<>>),
     TotalAmount |-> Get(cached_entry.ExtractedData, "total", 0),
     Category |-> cached_entry.Category,
     WorkUsePercentage |-> Get(cached_entry.Deduction, "WorkUsePercentage", 0),
     DeductibleAmount |-> Get(cached_entry.Deduction, "DeductibleAmount", 0),
     ClaimMethod |-> Get(cached_entry.Deduction, "ClaimMethod",
                         [label |-> "", arg |-> 0]),
     ClaimNotes |-> "", ProcessingStatus |-> "Cached (Duplicate)",
     FileHash |-> file_hash, MovedTo |-> NotMoved("N/A - Duplicate"),
     NeedsManualReview |-> FALSE, MissingFields |-> <<>>]

non_invoice_result(file_path, file_hash, moved_path) ==
    [FileName |-> file_path.name, FilePath |-> moved_path,
     OriginalPath |-> file_path, VendorName |-> S_NA,
     InvoiceNumber |-> <<>>, InvoiceDate |-> <<>>, TotalAmount |-> 0,
     Category |-> "Non-Invoice", WorkUsePercentage |-> 0,
     DeductibleAmount |-> 0,
     ClaimMethod |-> [label |-> "Not Applicable", arg |-> 0],
     ClaimNotes |-> "Too little text content (likely logo/signature)",
     ProcessingStatus |-> "Non-Invoice", FileHash |-> file_hash,
     MovedTo |-> moved_path, NeedsManualReview |-> FALSE,
     MissingFields |-> <<>>]

success_result(file_path, file_hash, moved_path, data, category, deduction, check) ==
    [FileName |-> file_path.name, FilePath |-> moved_path,
     OriginalPath |-> file_path,
     VendorName |-> Get(data, "vendor_name", <<>>),
     InvoiceNumber |-> Get(data, "invoice_number", <<>>),
     InvoiceDate |-> Get(data, "invoice_date", <<>>),
     TotalAmount |-> Get(data, "total", 0),
     Category |-> category,
     WorkUsePercentage |-> deduction.WorkUsePercentage,
     DeductibleAmount |-> deduction.DeductibleAmount,
     ClaimMethod |-> deduction.ClaimMethod,
     ClaimNotes |-> "", ProcessingStatus |-> "Success",
     FileHash |-> file_hash, MovedTo |-> moved_path,
     NeedsManualReview |-> check.needs_review,
     MissingFields |-> check.missing_fields]

\* What one process_file call leaves behind: whether an exception left the
\* call, the returned entry (NoEntry for None), the two in-memory stores, and
\* how often the extraction chain and the structured-extraction service were
\* called.
Outcome(raised, entry, c, ff, extract_calls, llm_calls) ==
    [raised |-> raised, result |-> entry, cache |-> c, failed_files |-> ff,
     extract_calls |-> extract_calls, llm_calls |-> llm_calls]

\* The pipeline keeps no clock: every timestamp it writes is this one.
RunTime == "now"

\* A variant of the except branch that counts an attempt twice.
record_failure_twice(c, ff, file_path, file_hash, failed_entry, reason, status, extract_calls, llm_calls) ==
    LET attempt_count == IF failed_entry # NoEntry
                         THEN failed_entry.AttemptCount + 2 ELSE 1
    IN  Outcome(FALSE,
                create_failed_entry(file_path, file_hash, reason, status),
                c,
                add_failure(ff, file_path, file_path.name, reason,
                            attempt_count, RunTime),
                extract_calls, llm_calls)

\* The except branch of process_file, and the two explicit failure branches.
record_failure(c, ff, file_path, file_hash, failed_entry, reason, status, extract_calls, llm_calls) ==
    LET attempt_count == IF failed_entry # NoEntry
                         THEN failed_entry.AttemptCount + 1 ELSE 1
    IN  Outcome(FALSE,
                create_failed_entry(file_path, file_hash, reason, status),
                c,
                add_failure(ff, file_path, file_path.name, reason,
                            attempt_count, RunTime),
                extract_calls, llm_calls)

\* Lines 393-456: the record reached categorisation.
process_extracted(c, ff, file_path, file_hash, failed_entry, data, taken, move_ok) ==
    LET check == check_missing_fields(data)
        category == categorize(Get(data, "vendor_name", <<>>),
                               Get(data, "description", <<>>),
                               Get(data, "line_items", <<>>))
        moved_path == move_processed_file(file_path, category,
                                          Get(data, "invoice_date", <<>>),
                                          taken, move_ok)
    IN  IF check.raised \/ category = "TypeError"
        THEN {record_failure(c, ff, file_path, file_hash, failed_entry,
                             "Processing error", "Failed (Error)", 1, 1)}
        ELSE {Outcome(FALSE,
                      success_result(file_path, file_hash, moved_path, data,
                                     category, deduction, check),
                      add_entry(c, file_path.name, file_hash, data, category,
                                deduction),
                      IF failed_entry # NoEntry
                      THEN remove_failure(ff, file_path) ELSE ff,
                      1, 1) :
                deduction \in DeductionCalculator_calculate_deduction(
                                  Get(data, "total", 0), category)}

\* Lines 319-470: the try block.
process_try(c, ff, file_path, file_hash, failed_entry, ext, llm, taken, move_ok) ==
    IF ext.raised
    THEN {record_failure(c, ff, file_path, file_hash, failed_entry,
                         "Processing error", "Failed (Error)", 1, 0)}
    ELSE IF ext.len < 10
    THEN {record_failure(c, ff, file_path, file_hash, failed_entry,
                         "No text content extracted", "Failed (No text)",
                         1, 0)}
    ELSE IF is_non_invoice(ext.len)
    THEN {Outcome(FALSE,
                  non_invoice_result(file_path, file_hash,
                                     move_non_invoice(file_path, taken,
                                                      move_ok)),
                  c, ff, 1, 0)}
    ELSE IF llm = NoEntry
    THEN {record_failure(c, ff, file_path, file_hash, failed_entry,
                         "AI extraction failed", "Failed (AI extraction)",
                         1, 1)}
    ELSE process_extracted(c, ff, file_path, file_hash, failed_entry, llm,
                           taken, move_ok)

\* A variant of process_file that records a skip as one more failure.
process_file_counting_skip(c, ff, file_path, file_hash, rp, ext, llm, taken, move_ok) ==
    LET cached_entry == IF rp THEN NoEntry ELSE find_by_hash(c, file_hash)
        failed_entry == find_by_path(ff, file_path)
    IN  IF file_hash = HashNone
        THEN {Outcome(FALSE, NoEntry, c, ff, 0, 0)}
        ELSE IF cached_entry # NoEntry
        THEN IF ~(CacheKeys \subseteq DOMAIN cached_entry)
             THEN {Outcome(TRUE, NoEntry, c, ff, 0, 0)}        \* KeyError
             ELSE {Outcome(FALSE,
                           cached_result(file_path, file_hash, cached_entry),
                           c, ff, 0, 0)}
        ELSE IF failed_entry # NoEntry
                /\ "AttemptCount" \notin DOMAIN failed_entry
        THEN {Outcome(TRUE, NoEntry, c, ff, 0, 0)}             \* KeyError
        ELSE IF failed_entry # NoEntry
                /\ failed_entry.AttemptCount >= max_retry_attempts
        THEN {record_failure(c, ff, file_path, file_hash, failed_entry,
                             "Skipped - Too many failures",
                             "Skipped (Max retries exceeded)", 0, 0)}
        ELSE process_try(c, ff, file_path, file_hash, failed_entry, ext, llm,
                         taken, move_ok)

\* InvoiceCataloger.process_file(file_path, ..., reprocess=rp) on stores c
\* and ff: the set of its possible outcomes.  file_hash is what
\* calculate_file_hash returned, ext what extract_text does, llm what
\* extract_invoice_data returns (NoEntry for None), taken and move_ok the
\* state of the destination folder and whether the rename succeeds.
process_file(c, ff, file_path, file_hash, rp, ext, llm, taken, move_ok) ==
    LET cached_entry == IF rp THEN NoEntry ELSE find_by_hash(c, file_hash)
        failed_entry == find_by_path(ff, file_path)
    IN  IF file_hash = HashNone
        THEN {Outcome(FALSE, NoEntry, c, ff, 0, 0)}
        ELSE IF cached_entry # NoEntry
        THEN IF ~(CacheKeys \subseteq DOMAIN cached_entry)
             THEN {Outcome(TRUE, NoEntry, c, ff, 0, 0)}        \* KeyError
             ELSE {Outcome(FALSE,
                           cached_result(file_path, file_hash, cached_entry),
                           c, ff, 0, 0)}
        ELSE IF failed_entry # NoEntry
                /\ "AttemptCount" \notin DOMAIN failed_entry
        THEN {Outcome(TRUE, NoEntry, c, ff, 0, 0)}             \* KeyError
        ELSE IF failed_entry # NoEntry
                /\ failed_entry.AttemptCount >= max_retry_attempts
        THEN {Outcome(FALSE,
                      create_failed_entry(file_path, file_hash,
                                          "Skipped - Too many failures",
                                          "Skipped (Max retries exceeded)"),
                      c, ff, 0, 0)}
        ELSE process_try(c, ff, file_path, file_hash, failed_entry, ext, llm,
                         taken, move_ok)

\* get_invoice_files: the scanned files, filtered in retry mode; raised is
\* the KeyError of a retry candidate without FilePath.
get_invoice_files(ff, scanned, retry_failed) ==
    LET retry_candidates == get_retry_candidates(ff, max_retry_attempts)
    IN  IF ~retry_failed THEN [raised |-> FALSE, files |-> scanned]
        ELSE IF \E i \in 1..Len(retry_candidates) :
                    "FilePath" \notin DOMAIN retry_candidates[i]
        THEN [raised |-> TRUE, files |-> <<>>]
        ELSE [raised |-> FALSE,
              files |-> SelectSeq(scanned,
                            LAMBDA f : \E i \in 1..Len(retry_candidates) :
                                           retry_candidates[i].FilePath = f)]

(***************************************************************************)
(* The pipeline as a state machine.                                        *)
(***************************************************************************)
\* Store files found on disk at installation: none, or files written by
\* another version whose records lack keys this code indexes.
DiskCaches == {<<>>, <<[FileHash |-> "h1"]>>}
DiskFailures == {<<>>, <<[FilePath |-> SourcePath("", "inv.pdf")]>>}

\* The scans rglob can return: the files present, those of invoice_folder
\* itself before those of its subfolders.
Scans ==
    {<<>>, <<SourcePath("", "inv.pdf")>>, <<SourcePath("inbox", "inv.pdf")>>,
     <<SourcePath("", "inv.pdf"), SourcePath("inbox", "inv.pdf")>>}

\* What the environment does during one process_file call: what extract_text
\* and the service return, how many names are taken in the destination
\* folder and whether the rename succeeds.  An input the call does not
\* consult is held at its default.
Scenarios ==
    {s \in [ext : ExtractOutcomes, llm : LLMRecords \cup {NoEntry},
            taken : {0, 1}, move_ok : BOOLEAN] :
        /\ (s.ext.raised \/ s.ext.len < 50) => s.llm = NoEntry
        /\ (s.ext.raised \/ s.ext.len < 10) => (s.taken = 0 /\ s.move_ok)
        /\ (s.ext.len >= 50 /\ s.llm \in {NoEntry, DataNullVendor})
               => (s.taken = 0 /\ s.move_ok)
        /\ ~s.move_ok => s.taken = 0}

\* The values C1 compares between a first result and a cached one.
Project(entry) ==
    [VendorName |-> entry.VendorName, InvoiceNumber |-> entry.InvoiceNumber,
     InvoiceDate |-> entry.InvoiceDate, TotalAmount |-> entry.TotalAmount,
     Category |-> entry.Category,
     WorkUsePercentage |-> entry.WorkUsePercentage,
     DeductibleAmount |-> entry.DeductibleAmount,
     ClaimMethod |-> entry.ClaimMethod]

NoCall ==
    [made |-> FALSE, path |-> SourcePath("", ""), hash |-> HashNone,
     reprocess |-> FALSE, raised |-> FALSE, extract_calls |-> 0,
     llm_calls |-> 0, cached_before |-> FALSE, had_failure |-> FALSE,
     prior_count |-> 0, n_before |-> 0, first_before |-> NoEntry]

NoHist == [first |-> NoEntry, n |-> 0, firstSaved |-> NoEntry, nSaved |-> 0]

PureIdle ==
    /\ cat = NoEntry
    /\ ded = NoEntry
    /\ mf = NoEntry
    /\ pdf = NoEntry
    /\ llmp = NoEntry
    /\ store = NoEntry
    /\ reloc = NoEntry
    /\ strat = NoEntry
    /\ retry = NoEntry

Init ==
    /\ cacheFile \in DiskCaches
    /\ failedFile \in DiskFailures
    /\ cacheFile = <<>> \/ failedFile = <<>>
    /\ cache = <<>>
    /\ failed_files = <<>>
    /\ pc = "idle"
    /\ files = <<>>
    /\ idx = 1
    /\ reprocess = FALSE
    /\ result = NoEntry
    /\ call = NoCall
    /\ hist = [h \in Hashes |-> NoHist]
    /\ PureIdle

\* A process starts: the constructors load both stores, run() checks the
\* prerequisites and scans the folder.
StartRun ==
    /\ pc \in {"idle", "done", "crashed"}
    /\ \E rp \in BOOLEAN, retry_failed \in BOOLEAN, prereq \in BOOLEAN,
          scanned \in Scans :
         LET c == StoreLoad(cacheFile)
             ff == StoreLoad(failedFile)
             found == get_invoice_files(ff, scanned, retry_failed)
         IN  /\ cache' = c
             /\ failed_files' = ff
             /\ reprocess' = rp
             /\ idx' = 1
             /\ IF ~prereq THEN pc' = "done" /\ files' = <<>>
                ELSE IF found.raised
                THEN pc' = "crashed" /\ files' = <<>>
                ELSE /\ files' = found.files
                     /\ pc' = IF found.files = <<>> THEN "done" ELSE "loop"
    /\ hist' = [h \in Hashes |->
                  [hist[h] EXCEPT !.first = hist[h].firstSaved,
                                  !.n = hist[h].nSaved]]
    /\ result' = NoEntry
    /\ call' = NoCall
    /\ UNCHANGED <<cacheFile, failedFile, cat, ded, mf, pdf, unitVars>>

\* One iteration of the loop of run(): process_file on files[idx].
ProcessNext ==
    /\ pc = "loop"
    /\ idx <= Len(files)
    /\ \E file_hash \in Hashes \cup {HashNone}, s \in Scenarios :
         \E out \in process_file(cache, failed_files, files[idx], file_hash,
                                 reprocess, s.ext, s.llm, s.taken, s.move_ok) :
            LET failed_entry == find_by_path(failed_files, files[idx])
                success == ~out.raised /\ out.result # NoEntry
                           /\ out.result.ProcessingStatus = "Success"
                known == file_hash \in Hashes
                cached_before == known /\ find_by_hash(cache, file_hash) # NoEntry
            IN  /\ Len(out.cache) <= MaxCache
                /\ cache' = out.cache
                /\ failed_files' = out.failed_files
                /\ result' = out.result
                /\ call' = [made |-> TRUE, path |-> files[idx],
                            hash |-> file_hash, reprocess |-> reprocess,
                            raised |-> out.raised,
                            extract_calls |-> out.extract_calls,
                            llm_calls |-> out.llm_calls,
                            cached_before |-> cached_before,
                            had_failure |-> failed_entry # NoEntry,
                            prior_count |-> Get(failed_entry, "AttemptCount", -1),
                            n_before |-> IF known THEN hist[file_hash].n ELSE 0,
                            first_before |-> IF known THEN hist[file_hash].first
                                             ELSE NoEntry]
                /\ hist' = IF ~success THEN hist
                           ELSE [hist EXCEPT
                                   ![file_hash].n = @ + 1,
                                   ![file_hash].first =
                                       IF @ = NoEntry /\ ~cached_before
                                       THEN Project(out.result) ELSE @]
                /\ IF out.raised
                   THEN pc' = "crashed" /\ idx' = idx
                   ELSE pc' = "loop" /\ idx' = idx + 1
    /\ UNCHANGED <<cacheFile, failedFile, files, reprocess, cat, ded, mf, pdf,
                   unitVars>>

\* The loop is over: cache_manager.save() and failed_files_manager.save().
Finish ==
    /\ pc = "loop"
    /\ idx > Len(files)
    /\ \E so1 \in SaveOutcomes, so2 \in SaveOutcomes :
         /\ cacheFile' = StoreSave(cacheFile, cache, so1)
         /\ failedFile' = StoreSave(failedFile, failed_files, so2)
         /\ hist' = [h \in Hashes |->
                       CASE so1 = "ok" ->
                              [hist[h] EXCEPT !.firstSaved = hist[h].first,
                                              !.nSaved = hist[h].n]
                         [] so1 = "unchanged" -> hist[h]
                         [] OTHER ->
                              [hist[h] EXCEPT !.firstSaved = NoEntry,
                                              !.nSaved = 0]]
    \* run() returns and the process ends: its memory is gone.
    /\ pc' = "done"
    /\ cache' = <<>>
    /\ failed_files' = <<>>
    /\ files' = <<>>
    /\ idx' = 1
    /\ reprocess' = FALSE
    /\ result' = NoEntry
    /\ call' = NoCall
    /\ UNCHANGED <<cat, ded, mf, pdf, unitVars>>

Next ==
    \/ StartRun
    \/ ProcessNext
    \/ Finish

Spec == Init /\ [][Next]_vars

(***************************************************************************)
(* Properties of the pipeline.                                             *)
(***************************************************************************)
Status == IF result = NoEntry THEN "" ELSE result.ProcessingStatus

\* The last call was made on a file whose hash could be computed.
Hashed == call.made /\ call.hash \in Hashes

Candidate(file_path) ==
    LET c == get_retry_candidates(failed_files, max_retry_attempts)
    IN  \E i \in 1..Len(c) : Get(c[i], "FilePath", NoEntry) = file_path

\* C1: with reprocess off, once a call has ended in 'Success' for hash h and
\* created the cache record of h, every later call on a file with hash h (in
\* this run, or in a later run that loaded the saved cache) ends in
\* 'Cached (Duplicate)' with the invoice fields, category and deduction of
\* that first result, and calls neither extract_text nor the service.  (With
\* reprocess off a 'Success' for h always creates the first record of h; the
\* history also counts a first 'Success' made under reprocess when the cache
\* held no record of h.)
C1_CachedAfterSuccess ==
    (Hashed /\ ~call.reprocess /\ call.first_before # NoEntry)
    => /\ ~call.raised
       /\ Status = "Cached (Duplicate)"
       /\ Project(result) = call.first_before
       /\ call.extract_calls = 0
       /\ call.llm_calls = 0

\* C1 witness: a cache hit on a hash that was processed twice before (the
\* second time under reprocess), answered with the first result's values.
C1_Witness ==
    /\ Hashed /\ ~call.reprocess /\ call.first_before # NoEntry
    /\ call.n_before = 2
    /\ Status = "Cached (Duplicate)"
    /\ Project(result) = call.first_before

\* C2 as stated: no hash ever yields two 'Success' entries in one cache
\* lifetime, whatever the arguments of the calls.
C2_AtMostOneSuccess == \A h \in Hashes : hist[h].n <= 1

\* C2: a call made with reprocess=False never ends in 'Success' for a hash
\* that already yielded 'Success' in this cache lifetime; a further 'Success'
\* for the same hash comes only from a call with reprocess=True.
C2_SecondSuccessOnlyByReprocess ==
    (Hashed /\ Status = "Success" /\ call.n_before >= 1) => call.reprocess

\* C2 witness: reprocess=True produced the second 'Success' of a hash.
C2_Witness ==
    /\ Hashed /\ Status = "Success" /\ call.n_before = 1 /\ call.reprocess
    /\ hist[call.hash].n = 2

\* C3: a path whose hash is not cached and whose failure record has
\* AttemptCount >= max_retry_attempts is answered with
\* 'Skipped (Max retries exceeded)', NeedsManualReview set, without any
\* extraction or service call, and is no retry candidate.
C3_RetryCeiling ==
    (Hashed /\ ~call.cached_before /\ call.had_failure
        /\ call.prior_count >= max_retry_attempts)
    => /\ ~call.raised
       /\ Status = "Skipped (Max retries exceeded)"
       /\ result.NeedsManualReview
       /\ call.extract_calls = 0
       /\ call.llm_calls = 0
       /\ ~Candidate(call.path)

\* C3 witness: the call after exactly max_retry_attempts failed attempts.
C3_Witness ==
    /\ Hashed /\ ~call.cached_before /\ call.had_failure
    /\ call.prior_count = max_retry_attempts
    /\ Status = "Skipped (Max retries exceeded)"

\* C4: after a 'Success' for a path that had a failure record, the failure
\* list holds no record for the path and the path is no retry candidate.
C4_SuccessClearsFailure ==
    (Hashed /\ Status = "Success" /\ call.had_failure)
    => /\ find_by_path(failed_files, call.path) = NoEntry
       /\ ~Candidate(call.path)

\* C4 witness: a successful retry of a path that had failed before.
C4_Witness ==
    /\ Hashed /\ Status = "Success" /\ call.had_failure
    /\ call.prior_count >= 1

TerminalStatuses ==
    {"Cached (Duplicate)", "Skipped (Max retries exceeded)",
     "Failed (No text)", "Failed (AI extraction)", "Failed (Error)",
     "Non-Invoice", "Success"}

\* C9: every call on a file whose hash can be computed returns exactly one
\* catalog entry, with one of the terminal statuses.
C9_OneTerminalEntry ==
    Hashed => (~call.raised /\ result # NoEntry /\ Status \in TerminalStatuses)

\* C10: no per-file error terminates run(): the loop goes on to the save.
C10_RunNeverTerminatedByFile == pc # "crashed"

FailedStatuses == {"Failed (No text)", "Failed (AI extraction)", "Failed (Error)"}

C12_NonInvoiceDetected ==
    (pc = "loop" /\ idx <= Len(files))
    => \A file_hash \in Hashes, s \in Scenarios :
         \A out \in process_file(cache, failed_files, files[idx], file_hash,
                                 reprocess, s.ext, s.llm, s.taken, s.move_ok) :
            (/\ out.extract_calls = 1
             /\ ~s.ext.raised /\ s.ext.len >= 10 /\ s.move_ok
             /\ \/ s.ext.len < 50
                \/ (s.llm # NoEntry /\ is_non_invoice_data(s.llm).value))
            => /\ ~out.raised
               /\ out.result.ProcessingStatus = "Non-Invoice"
               /\ ~out.result.NeedsManualReview
               /\ out.result.FilePath.category = "Non-Invoice"
               /\ out.failed_files = failed_files
               /\ out.cache = cache

\* C24: after a call that ends in 'Success', 'Non-Invoice' or
\* 'Cached (Duplicate)' the failure list holds no record for the path of the
\* call, and the path is no retry candidate.
C24_NoStaleFailureRecord ==
    (Hashed /\ Status \in {"Success", "Non-Invoice", "Cached (Duplicate)"})
    => /\ find_by_path(failed_files, call.path) = NoEntry
       /\ ~Candidate(call.path)

\* C25: a call that ends in 'Cached (Duplicate)' or
\* 'Skipped (Max retries exceeded)' extracts nothing and changes nothing: the
\* cache records and the failure records are those of before the call, and
\* the file is where it was.
C25_CachedAndSkippedChangeNothing ==
    [][(call'.made /\ result' # NoEntry
           /\ result'.ProcessingStatus \in {"Cached (Duplicate)",
                                            "Skipped (Max retries exceeded)"})
       => /\ cache' = cache
          /\ failed_files' = failed_files
          /\ result'.FilePath = call'.path
          /\ result'.MovedTo.folder \in {"N/A - Duplicate", "N/A - Not moved"}
          /\ call'.extract_calls = 0
          /\ call'.llm_calls = 0]_vars

\* C25 witness: a file was answered from the cache while the failure list
\* holds a record that has reached the ceiling.
C25_Witness ==
    /\ Hashed
    /\ Status = "Cached (Duplicate)"
    /\ \E i \in 1..Len(failed_files) :
          Get(failed_files[i], "AttemptCount", 0) >= max_retry_attempts


(***************************************************************************)
(* The categorizer on its own.                                             *)
(***************************************************************************)
S_AGL == <<"A", "G", "L">>
S_Dell == <<"D", "e", "l", "l">>
S_Woolworths == <<"W", "o", "o", "l", "w", "o", "r", "t", "h", "s">>
S_agl == <<"a", "g", "l">>
S_laptop == <<"l", "a", "p", "t", "o", "p">>
S_data == <<"d", "a", "t", "a">>
S_JBHiFi == <<"J", "B", " ", "H", "i", "-", "F", "i">>
S_gas == <<"g", "a", "s">>

Vendors == {<<>>, <<Blank>>, None, S_AGL, S_Dell, S_Udemy, S_Woolworths,
            S_Unknown, S_JBHiFi}
Descriptions == {<<>>, None, S_laptop, S_data, S_gas}
ItemLists ==
    {<<>>, NoList, <<[description |-> S_data]>>,
     <<[quantity |-> 1], [description |-> None]>>}

\* vendor_overrides lists as load_vendor_overrides returns them.
OverrideLists ==
    {<<>>,
     <<[vendor_pattern |-> S_agl, category |-> "Internet", enabled |-> TRUE]>>,
     <<[vendor_pattern |-> S_agl, category |-> "Internet", enabled |-> FALSE],
       [vendor_pattern |-> S_Dell, category |-> "Office Supplies",
        enabled |-> TRUE]>>}

PipelineIdle ==
    /\ cacheFile = <<>>
    /\ failedFile = <<>>
    /\ cache = <<>>
    /\ failed_files = <<>>
    /\ pc = "idle"
    /\ files = <<>>
    /\ idx = 1
    /\ reprocess = FALSE
    /\ result = NoEntry
    /\ call = NoCall
    /\ hist = [h \in Hashes |-> NoHist]

\* Nothing constructed, nothing called.
InitIdle == PipelineIdle /\ PureIdle

\* ExpenseCategorizer(...) or ExpenseCategorizer(vendor_overrides=overrides)
NewCategorizer ==
    /\ \E given \in BOOLEAN, overrides \in OverrideLists :
         /\ ~given => overrides = <<>>
         /\ cat' = [instance |-> ExpenseCategorizer_new(
                                     IF given THEN {"vendor_overrides"} ELSE {}),
                    given |-> given, overrides |-> overrides,
                    called |-> FALSE, vendor_name |-> <<>>,
                    description |-> <<>>, line_items |-> <<>>,
                    returned |-> ""]
    /\ UNCHANGED <<pipelineVars, ded, mf, pdf, unitVars>>

\* categorize(vendor_name, description, line_items) on a constructed object
Categorize ==
    /\ cat # NoEntry
    /\ cat.instance = "ExpenseCategorizer"
    /\ \E v \in Vendors, d \in Descriptions, items \in ItemLists :
         cat' = [cat EXCEPT !.called = TRUE, !.vendor_name = v,
                            !.description = d, !.line_items = items,
                            !.returned = categorize(v, d, items)]
    /\ UNCHANGED <<pipelineVars, ded, mf, pdf, unitVars>>

SpecCategorizer == InitIdle /\ [][NewCategorizer \/ Categorize]_vars

\* The precedence rule of the specification: the category of the first
\* enabled override whose pattern occurs, case-insensitively, in vendor_name;
\* "" when there is none.
RECURSIVE OverrideCategory(_, _)
OverrideCategory(overrides, vendor_name) ==
    IF overrides = <<>> THEN ""
    ELSE IF Head(overrides).enabled
            /\ IsSubstring(Lower(Head(overrides).vendor_pattern),
                           Lower(Fmt(vendor_name)))
         THEN Head(overrides).category
         ELSE OverrideCategory(Tail(overrides), vendor_name)

\* C5: an ExpenseCategorizer constructed with a vendor_overrides list exists
\* and answers categorize with the category of the first enabled matching
\* override, and with the keyword category only when no override matches.
C5_OverridePrecedence ==
    (cat # NoEntry /\ cat.given)
    => /\ cat.instance = "ExpenseCategorizer"
       /\ cat.called
            => cat.returned =
                 IF OverrideCategory(cat.overrides, cat.vendor_name) # ""
                 THEN OverrideCategory(cat.overrides, cat.vendor_name)
                 ELSE categorize(cat.vendor_name, cat.description,
                                 cat.line_items)

\* The keyword rule of the specification: the combined search string, and
\* the first category in table order one of whose keywords occurs in it.
RECURSIVE JoinedDescriptions(_)
JoinedDescriptions(items) ==
    IF items = <<>> THEN <<>>
    ELSE (IF "description" \in DOMAIN Head(items)
          THEN <<Blank>> \o Head(items).description ELSE <<>>)
         \o JoinedDescriptions(Tail(items))

CombinedText(vendor_name, description, line_items) ==
    Lower(vendor_name \o <<Blank>> \o description
          \o JoinedDescriptions(line_items))

KeywordCategory(text) ==
    LET hits == {i \in 1..Len(CATEGORIES) :
                    \E k \in 1..Len(CATEGORIES[i].keywords) :
                        IsSubstring(CATEGORIES[i].keywords[k], text)}
    IN  IF hits = {} THEN "Other"
        ELSE CATEGORIES[CHOOSE i \in hits : \A j \in hits : i <= j].category

\* Every input is a string, and line_items a list of items whose
\* descriptions are strings.
StringInputs ==
    /\ cat.vendor_name # None
    /\ cat.description # None
    /\ cat.line_items # NoList
    /\ \A i \in 1..Len(cat.line_items) :
          "description" \in DOMAIN cat.line_items[i]
              => cat.line_items[i].description # None

\* C13: with no vendor override in play, categorize returns the first
\* category, in table order, one of whose keywords is a substring of the
\* lowercased concatenation of vendor name, description and line item
\* descriptions, and 'Other' when no keyword occurs; 'Woolworths' gives
\* 'Food & Groceries', 'JB Hi-Fi' 'Electronics', an unknown vendor 'Other'.
C13_KeywordCategorization ==
    (cat # NoEntry /\ cat.called /\ ~cat.given /\ StringInputs)
    => /\ cat.returned =
            KeywordCategory(CombinedText(cat.vendor_name, cat.description,
                                         cat.line_items))
       /\ (cat.description = <<>> /\ cat.line_items = <<>>)
            => /\ cat.vendor_name = S_Woolworths
                    => cat.returned = "Food & Groceries"
               /\ cat.vendor_name = S_JBHiFi => cat.returned = "Electronics"
               /\ cat.vendor_name = S_Unknown => cat.returned = "Other"

\* C13 witness: keywords of two categories occur ('agl' in the vendor,
\* 'laptop' in the description); the earlier category of the table is
\* returned.
C13_Witness ==
    /\ cat # NoEntry /\ cat.called /\ ~cat.given
    /\ cat.vendor_name = S_AGL /\ cat.description = S_laptop
    /\ cat.line_items = <<[description |-> S_data]>>
    /\ cat.returned = "Computer Equipment"

\* An input that is empty or absent.
EmptyOrAbsent(s) == s = None \/ Strip(s) = <<>>

\* C14: categorize never raises when vendor_name and description are a
\* string, empty, whitespace or None and line_items is a list, empty or
\* None; it returns 'Other' when all inputs are empty or absent.
C14_NeverRaises ==
    (cat # NoEntry /\ cat.called)
    => /\ cat.returned # "TypeError"
       /\ (/\ EmptyOrAbsent(cat.vendor_name)
           /\ EmptyOrAbsent(cat.description)
           /\ cat.line_items \in {<<>>, NoList})
            => cat.returned = "Other"

\* With line_items a list, categorize returns a category for every vendor
\* and description, None included.
C14_NeverRaisesOnLists ==
    (cat # NoEntry /\ cat.called /\ cat.line_items # NoList)
    => /\ cat.returned # "TypeError"
       /\ (/\ EmptyOrAbsent(cat.vendor_name)
           /\ EmptyOrAbsent(cat.description)
           /\ cat.line_items = <<>>)
            => cat.returned = "Other"

(***************************************************************************)
(* ATOStrategy  (tax/strategies/ato_strategy.py, base_strategy.py)         *)
(***************************************************************************)
\* A rule table as load_rules returns it (ato_rules.json is not part of the
\* sources; the table holds one rule of each shape the strategy tells
\* apart).  Amounts are cents.
RuleTable ==
    [categories |->
        [c \in {"Professional Development", "Computer Equipment",
                "Software & Subscriptions", "Internet"} |->
            CASE c = "Professional Development"
                    -> [work_use_applicable |-> FALSE, threshold |-> 30000]
              [] c = "Computer Equipment"
                    -> [work_use_applicable |-> TRUE, threshold |-> 30000]
              [] c = "Software & Subscriptions"
                    -> [threshold |-> 30000, depreciation_years |-> 2]
              [] OTHER -> [claim_method |-> "Actual Cost Method"]]]

\* A rules dictionary without the 'categories' key.
RuleTableBare == [version |-> "1.0"]

RuleTables == {RuleTable, RuleTableBare}

\* BaseTaxStrategy.get_category_rule
get_category_rule(rules, category) ==
    IF "categories" \in DOMAIN rules
    THEN Get(rules.categories, category, NoEntry)
    ELSE NoEntry

\* BaseTaxStrategy.calculate_work_use_amount: round(total * (wup / 100), 2)
calculate_work_use_amount(total_amount, wup) ==
    RoundSet(total_amount * wup, 100)

Deduction(wup, amount, label, arg) ==
    [WorkUsePercentage |-> wup, DeductibleAmount |-> amount,
     ClaimMethod |-> [label |-> label, arg |-> arg]]

calculate_full_deduction(total_amount, rule) ==
    {Deduction(100, total_amount,
               Get(rule, "claim_method", "Full Deduction"), 100)}

calculate_work_use(total_amount, wup, rule) ==
    {Deduction(wup, a, Get(rule, "claim_method", "Actual Cost Method"),
               IF wup < 100 THEN wup ELSE 100) :
        a \in calculate_work_use_amount(total_amount, wup)}

\* The work-use amount is rounded to cents and its quotient by the years is
\* rounded again.
calculate_with_threshold(total_amount, wup, threshold, rule) ==
    IF total_amount <= threshold
    THEN {Deduction(wup, a, "Immediate Deduction", threshold) :
            a \in calculate_work_use_amount(total_amount, wup)}
    ELSE LET depreciation_years == Get(rule, "depreciation_years", 3)
         IN  UNION {{Deduction(wup, a, "Decline in Value", threshold) :
                        a \in RoundSet(work_use_amount, depreciation_years)} :
                    work_use_amount \in
                        calculate_work_use_amount(total_amount, wup)}

create_manual_review_deduction(total_amount, wup) ==
    {Deduction(wup, 0, "Manual Review Required", 0)}

calculate_by_rule(total_amount, wup, rule) ==
    IF ~Get(rule, "work_use_applicable", TRUE)
    THEN calculate_full_deduction(total_amount, rule)
    ELSE IF "threshold" \in DOMAIN rule
    THEN calculate_with_threshold(total_amount, wup, rule.threshold, rule)
    ELSE calculate_work_use(total_amount, wup, rule)

\* ATOStrategy.calculate_deduction, as the set of results it can return
ATOStrategy_calculate_deduction(rules, total_amount, category, wup) ==
    LET category_rule == get_category_rule(rules, category)
    IN  IF category_rule = NoEntry
        THEN create_manual_review_deduction(total_amount, wup)
        ELSE calculate_by_rule(total_amount, wup, category_rule)

(***************************************************************************)
(* The deduction engines on their own.                                     *)
(***************************************************************************)
\* The if-chain of DeductionCalculator.calculate_deduction read as a rule
\* table: which categories it treats, and with which threshold and years.
DeductionCalculatorRules ==
    [categories |->
        [c \in {"Electricity", "Internet", "Phone & Mobile",
                "Software & Subscriptions", "Computer Equipment",
                "Professional Development", "Professional Membership",
                "Office Supplies", "Communication Tools"} |->
            CASE c = "Software & Subscriptions"
                    -> [threshold |-> 30000, depreciation_years |-> 2]
              [] c = "Computer Equipment"
                    -> [threshold |-> 30000, depreciation_years |-> 3]
              [] c \in {"Professional Development", "Professional Membership"}
                    -> [work_use_applicable |-> FALSE]
              [] OTHER -> [claim_method |-> "Actual Cost Method"]]]

\* Totals in cents: around the $300 threshold, and amounts whose work-use
\* share has a fraction of a cent.
Totals == {0, 1, 2999, 30000, 30001, 30008, 100010}
WorkUses == {0, 10, 60, 100}
DeductionCategories ==
    {"Professional Development", "Computer Equipment",
     "Software & Subscriptions", "Internet", "Other"}

\* DeductionCalculator(work_use_percentage, ...).calculate_deduction
CalculatorDeduction ==
    /\ \E total \in Totals, category \in DeductionCategories :
         \E out \in DeductionCalculator_calculate_deduction(total, category) :
            ded' = [engine |-> "DeductionCalculator",
                    rules |-> DeductionCalculatorRules, total |-> total,
                    category |-> category, wup |-> work_use_percentage,
                    out |-> out]
    /\ UNCHANGED <<pipelineVars, cat, mf, pdf, unitVars>>

\* ATOStrategy(rules).calculate_deduction
StrategyDeduction ==
    /\ \E rules \in RuleTables, total \in Totals,
          category \in DeductionCategories, wup \in WorkUses :
         \E out \in ATOStrategy_calculate_deduction(rules, total, category,
                                                    wup) :
            ded' = [engine |-> "ATOStrategy", rules |-> rules,
                    total |-> total, category |-> category, wup |-> wup,
                    out |-> out]
    /\ UNCHANGED <<pipelineVars, cat, mf, pdf, unitVars>>

SpecDeduction ==
    InitIdle /\ [][CalculatorDeduction \/ StrategyDeduction]_vars

\* The four-branch reference: does `out` carry the amount of the exact
\* formula, to the cent, and the branch's label and work-use percentage?
MatchesReference(out, rule, total, wup) ==
    IF rule = NoEntry
    THEN /\ out.DeductibleAmount = 0
         /\ out.ClaimMethod.label = "Manual Review Required"
    ELSE IF ~Get(rule, "work_use_applicable", TRUE)
    THEN /\ out.DeductibleAmount = total
         /\ out.WorkUsePercentage = 100
    ELSE IF "threshold" \in DOMAIN rule /\ total <= rule.threshold
    THEN /\ out.DeductibleAmount \in RoundSet(total * wup, 100)
         /\ out.ClaimMethod.label = "Immediate Deduction"
    ELSE IF "threshold" \in DOMAIN rule
    THEN /\ out.DeductibleAmount
               \in RoundSet(total * wup,
                            100 * Get(rule, "depreciation_years", 3))
         /\ out.ClaimMethod.label = "Decline in Value"
    ELSE out.DeductibleAmount \in RoundSet(total * wup, 100)

\* C6: for every total, category and work-use percentage the deduction either
\* engine computes is the one of the four-branch reference function.
C6_DeductionBranches ==
    ded # NoEntry
    => MatchesReference(ded.out, get_category_rule(ded.rules, ded.category),
                        ded.total, ded.wup)

\* The same for the DeductionCalculator alone, which rounds once.
C6_CalculatorBranches ==
    (ded # NoEntry /\ ded.engine = "DeductionCalculator")
    => MatchesReference(ded.out, get_category_rule(ded.rules, ded.category),
                        ded.total, ded.wup)

(***************************************************************************)
(* _check_missing_fields on its own.                                       *)
(***************************************************************************)
\* Structured records as _parse_response returns them: vendor_name,
\* invoice_date and total are always present (a missing one is defaulted),
\* a JSON null stays None, invoice_number may be absent.
FullRecords ==
    [vendor_name : {<<>>, <<Blank>>, S_Udemy, S_NA, None},
     invoice_date : {<<>>, S_Date, None},
     total : {0, 50000},
     invoice_number : {<<>>, <<"7">>, None}]

StructuredRecords ==
    FullRecords
    \cup {[k \in {"vendor_name", "invoice_date", "total"} |-> r[k]] :
            r \in FullRecords}

CheckMissingFields ==
    /\ \E data \in StructuredRecords :
         mf' = [data |-> data, out |-> check_missing_fields(data)]
    /\ UNCHANGED <<pipelineVars, cat, ded, pdf, unitVars>>

SpecMissingFields == InitIdle /\ [][CheckMissingFields]_vars

\* A field of the record is missing: absent, null, empty or blank.
FieldMissing(data, key) ==
    \/ key \notin DOMAIN data
    \/ data[key] = None
    \/ Strip(data[key]) = <<>>

ExpectedMissing(data) ==
    (IF FieldMissing(data, "vendor_name") THEN <<"Vendor Name">> ELSE <<>>)
    \o (IF FieldMissing(data, "invoice_date")
        THEN <<"Invoice Date">> ELSE <<>>)
    \o (IF data.total = 0 THEN <<"Total Amount">> ELSE <<>>)
    \o (IF FieldMissing(data, "invoice_number")
        THEN <<"Invoice Number (bonus)">> ELSE <<>>)

PolicyHolds(data, out) ==
    /\ ~out.raised
    /\ out.needs_review
         = (\/ FieldMissing(data, "vendor_name")
            \/ FieldMissing(data, "invoice_date")
            \/ data.total = 0)
    /\ out.missing_fields = ExpectedMissing(data)

\* C7: for every structured record the check answers, NeedsManualReview is
\* true exactly when a critical field is missing, and MissingFields lists the
\* missing fields in the order Vendor Name, Invoice Date, Total Amount,
\* Invoice Number (bonus).
C7_MissingFieldsPolicy == mf # NoEntry => PolicyHolds(mf.data, mf.out)

\* The policy on the records none of whose fields is null.
C7_PolicyOnStrings ==
    (mf # NoEntry /\ \A k \in DOMAIN mf.data \ {"total"} : mf.data[k] # None)
    => PolicyHolds(mf.data, mf.out)

\* C21: for every record extract_invoice_data returns, whatever fields of it
\* are missing or null, process_file ends in 'Success' with the absent
\* critical fields listed in MissingFields, and leaves no failure record for
\* the path.
C21_AbsentFieldsNeverAnError ==
    (pc = "loop" /\ idx <= Len(files))
    => \A file_hash \in Hashes, s \in Scenarios :
         \A out \in process_file(cache, failed_files, files[idx], file_hash,
                                 reprocess, s.ext, s.llm, s.taken, s.move_ok) :
            (out.llm_calls = 1 /\ s.llm # NoEntry)
            => /\ ~out.raised
               /\ out.result.ProcessingStatus = "Success"
               /\ out.result.MissingFields = ExpectedMissing(s.llm)
               /\ find_by_path(out.failed_files, files[idx]) = NoEntry

\* C22: the in-memory cache holds at most one record per content hash, so
\* after a 'Success' for hash h find_by_hash(h) is the record of that call.
C22_OneRecordPerHash ==
    /\ \A i, j \in 1..Len(cache) :
          (i # j /\ "FileHash" \in DOMAIN cache[i]
                 /\ "FileHash" \in DOMAIN cache[j])
          => cache[i].FileHash # cache[j].FileHash
    /\ (Hashed /\ Status = "Success")
       => find_by_hash(cache, call.hash) = cache[Len(cache)]

(***************************************************************************)
(* PDFExtractor.extract_text  (extractors/pdf_extractor.py)                *)
(***************************************************************************)
\* The import flags of the module.
Libraries == {"PYMUPDF", "PDFPLUMBER", "PYPDF", "PDF2IMAGE", "PYTESSERACT",
              "EASYOCR"}

\* A variant with a plausible defect: the OCR stages placed first.
StageMethod_ocr_first(stage) ==
    CASE stage = 1 -> [name |-> "EasyOCR", label |-> "EasyOCR",
                       needs |-> {"EASYOCR", "PDF2IMAGE"}]
      [] stage = 2 -> [name |-> "Tesseract", label |-> "Tesseract OCR",
                       needs |-> {"PYTESSERACT", "PDF2IMAGE"}]
      [] stage = 3 -> [name |-> "PyMuPDF", label |-> "PyMuPDF (native text)",
                       needs |-> {"PYMUPDF"}]
      [] stage = 4 -> [name |-> "pdfplumber",
                       label |-> "pdfplumber (native text)",
                       needs |-> {"PDFPLUMBER"}]
      [] OTHER -> [name |-> "pypdf", label |-> "pypdf (native text)",
                   needs |-> {"PYPDF"}]

\* The stages of extract_text in source order: the method, the name it is
\* returned under and the libraries its guard asks for.
StageMethod(stage) ==
    CASE stage = 1 -> [name |-> "PyMuPDF", label |-> "PyMuPDF (native text)",
                       needs |-> {"PYMUPDF"}]
      [] stage = 2 -> [name |-> "pdfplumber",
                       label |-> "pdfplumber (native text)",
                       needs |-> {"PDFPLUMBER"}]
      [] stage = 3 -> [name |-> "pypdf", label |-> "pypdf (native text)",
                       needs |-> {"PYPDF"}]
      [] stage = 4 -> [name |-> "EasyOCR", label |-> "EasyOCR",
                       needs |-> {"EASYOCR", "PDF2IMAGE"}]
      [] OTHER -> [name |-> "Tesseract", label |-> "Tesseract OCR",
                   needs |-> {"PYTESSERACT", "PDF2IMAGE"}]

LastStage == 5

\* What a library does with the file: it raises, or yields text whose
\* stripped length is len.
MethodOutcomes ==
    {[raised |-> TRUE, len |-> 0]}
    \cup {[raised |-> FALSE, len |-> n] : n \in {0, 50, 51, 80}}

\* _extract_with_*: the (text, success) pair, text given by its length
\* (-1 for None)
extract_with(outcome) ==
    IF ~outcome.raised /\ outcome.len > 50
    THEN [len |-> outcome.len, success |-> TRUE]
    ELSE [len |-> -1, success |-> FALSE]

\* extract_text is called: the file may be gone.
PdfStart ==
    /\ IF pdf = NoEntry THEN TRUE ELSE pdf.done
    /\ \E exists \in BOOLEAN, available \in SUBSET Libraries :
         pdf' = [available |-> available, stage |-> 1, calls |-> <<>>,
                 done |-> ~exists, len |-> -1,
                 method |-> IF exists THEN "" ELSE "File not found"]
    /\ UNCHANGED <<pipelineVars, cat, ded, mf, unitVars>>

\* One stage of extract_text: skipped when its libraries are not there,
\* otherwise its method is invoked and the result returned when accepted.
PdfStage ==
    /\ pdf # NoEntry
    /\ ~pdf.done
    /\ pdf.stage <= LastStage
    /\ LET m == StageMethod(pdf.stage)
       IN  IF ~(m.needs \subseteq pdf.available)
           THEN pdf' = [pdf EXCEPT !.stage = @ + 1]
           ELSE \E outcome \in MethodOutcomes :
                  LET r == extract_with(outcome)
                  IN  pdf' = [pdf EXCEPT
                                !.calls = Append(@, [name |-> m.name,
                                                     success |-> r.success,
                                                     len |-> r.len]),
                                !.stage = IF r.success THEN @ ELSE @ + 1,
                                !.done = r.success,
                                !.len = r.len,
                                !.method = IF r.success THEN m.label ELSE @]
    /\ UNCHANGED <<pipelineVars, cat, ded, mf, unitVars>>

\* Every stage was skipped or rejected.
PdfExhausted ==
    /\ pdf # NoEntry
    /\ ~pdf.done
    /\ pdf.stage > LastStage
    /\ pdf' = [pdf EXCEPT !.done = TRUE, !.len = -1,
                          !.method = "All extraction methods failed"]
    /\ UNCHANGED <<pipelineVars, cat, ded, mf, unitVars>>

SpecPdf == InitIdle /\ [][PdfStart \/ PdfStage \/ PdfExhausted]_vars

\* The order and the guards the specification gives.
FallbackOrder == <<"PyMuPDF", "pdfplumber", "pypdf", "EasyOCR", "Tesseract">>
FallbackLabel ==
    <<"PyMuPDF (native text)", "pdfplumber (native text)",
      "pypdf (native text)", "EasyOCR", "Tesseract OCR">>
FallbackNeeds ==
    <<{"PYMUPDF"}, {"PDFPLUMBER"}, {"PYPDF"}, {"EASYOCR", "PDF2IMAGE"},
      {"PYTESSERACT", "PDF2IMAGE"}>>

Position(name) == CHOOSE i \in 1..5 : FallbackOrder[i] = name

\* C8: the methods are invoked in the order PyMuPDF, pdfplumber, pypdf,
\* EasyOCR, Tesseract; a method is invoked only after every earlier available
\* method was invoked and rejected; the first accepted result ends the chain
\* and is returned under that method's name, so no OCR method runs after a
\* native reader was accepted.
C8_FallbackOrder ==
    pdf # NoEntry
    => LET calls == pdf.calls
           n == Len(calls)
       IN  /\ \A i, j \in 1..n :
                i < j => Position(calls[i].name) < Position(calls[j].name)
           /\ \A i \in 1..n :
                \A k \in 1..(Position(calls[i].name) - 1) :
                    FallbackNeeds[k] \subseteq pdf.available
                    => \E j \in 1..(i - 1) :
                          /\ calls[j].name = FallbackOrder[k]
                          /\ ~calls[j].success
           /\ \A i \in 1..n :
                calls[i].success
                => /\ i = n
                   /\ pdf.done
                   /\ pdf.method = FallbackLabel[Position(calls[i].name)]
                   /\ pdf.len = calls[i].len

\* C8 witness: pdfplumber returned 80 characters after PyMuPDF was rejected;
\* both OCR methods were available and neither was invoked.
C8_Witness ==
    /\ pdf # NoEntry
    /\ pdf.done
    /\ pdf.method = "pdfplumber (native text)"
    /\ pdf.len = 80
    /\ Len(pdf.calls) = 2
    /\ pdf.available = Libraries


(***************************************************************************)
(* LLMProcessor.extract_invoice_data  (processors/llm_processor.py)        *)
(***************************************************************************)
retry_attempts == 3            \* Config.retry_attempts default

\* What one _call_llm does: it raises, or returns a response.  A response is
\* None, the empty string, text that is no JSON, JSON that is no object, or
\* a JSON object.
ServiceReplies ==
    {[kind |-> "exception"], [kind |-> "none"], [kind |-> "empty"],
     [kind |-> "text"], [kind |-> "json_list"]}
    \cup {[kind |-> "json_object", data |-> d] :
            d \in {[total |-> 50000],
                   [vendor_name |-> None, invoice_date |-> S_Date,
                    total |-> 0, line_items |-> None]}}

\* _parse_response: None for text json.loads rejects and for JSON values the
\* field loop cannot index; for an object, the object with '' / 0.00 put in
\* for absent required fields and line_items made a list.
parse_response(response) ==
    IF response.kind # "json_object" THEN NoEntry
    ELSE LET data == response.data
         IN  [k \in DOMAIN data
                    \cup {"vendor_name", "invoice_date", "total", "line_items"} |->
                CASE k = "line_items" ->
                        IF k \in DOMAIN data /\ data[k] # None
                        THEN data[k] ELSE <<>>
                  [] k \in DOMAIN data -> data[k]
                  [] k = "total" -> 0
                  [] OTHER -> <<>>]

\* A variant with a plausible defect: one attempt more than configured.
AttemptsAllowed_extra == retry_attempts + 1

\* range(1, self.retry_attempts + 1)
AttemptsAllowed == retry_attempts

\* extract_invoice_data is entered: the length test, then the prompt.  The
\* text is given by its stripped length; -1 stands for None.
LlmStart ==
    /\ IF llmp = NoEntry THEN TRUE ELSE llmp.done
    /\ \E n \in {-1, 0, 9, 10, 80} :
         llmp' = [text_len |-> n, attempt |-> 1, replies |-> <<>>,
                  delays |-> <<>>,
                  done |-> n < 10, raised |-> FALSE, returned |-> NoEntry]
    /\ UNCHANGED <<pipelineVars, cat, ded, mf, pdf, store, reloc, strat, retry>>

\* One pass of the retry loop.
LlmAttempt ==
    /\ llmp # NoEntry
    /\ ~llmp.done
    /\ llmp.attempt <= AttemptsAllowed
    /\ \E reply \in ServiceReplies :
         LET extracted_data == IF reply.kind \in {"exception", "none", "empty"}
                               THEN NoEntry ELSE parse_response(reply)
         IN  llmp' = [llmp EXCEPT
                        !.replies = Append(@, reply),
                        \* time.sleep(self.retry_delay), in the except
                        \* branch before its continue
                        !.delays = Append(@, reply.kind = "exception"
                                             /\ llmp.attempt < AttemptsAllowed),
                        !.attempt = @ + 1,
                        !.returned = extracted_data,
                        !.done = \/ extracted_data # NoEntry
                                 \/ (reply.kind = "exception"
                                       /\ llmp.attempt >= AttemptsAllowed)]
    /\ UNCHANGED <<pipelineVars, cat, ded, mf, pdf, store, reloc, strat, retry>>

\* The loop ran out: return None.
LlmExhausted ==
    /\ llmp # NoEntry
    /\ ~llmp.done
    /\ llmp.attempt > AttemptsAllowed
    /\ llmp' = [llmp EXCEPT !.done = TRUE, !.returned = NoEntry]
    /\ UNCHANGED <<pipelineVars, cat, ded, mf, pdf, store, reloc, strat, retry>>

SpecLlm == InitIdle /\ [][LlmStart \/ LlmAttempt \/ LlmExhausted]_vars

\* A reply that yields a record.
Parses(reply) == reply.kind = "json_object"

\* C15: every call of extract_invoice_data ends after at most retry_attempts
\* calls to the service and never raises; it returns the record of the first
\* reply that parses, and returns None only when the text is shorter than 10
\* characters (no call made) or all retry_attempts attempts failed.
C15_BoundedRetry ==
    (llmp # NoEntry)
    => /\ Len(llmp.replies) <= retry_attempts
       /\ ~llmp.raised
       /\ \A i \in 1..Len(llmp.replies) :
            Parses(llmp.replies[i])
               => /\ i = Len(llmp.replies)
                  /\ llmp.done
                  /\ llmp.returned # NoEntry
                  /\ \A k \in DOMAIN llmp.replies[i].data :
                       k # "line_items"
                          => llmp.returned[k] = llmp.replies[i].data[k]
       /\ (llmp.done /\ llmp.returned = NoEntry)
            => \/ llmp.text_len < 10 /\ llmp.replies = <<>>
               \/ /\ Len(llmp.replies) = retry_attempts
                  /\ \A i \in 1..Len(llmp.replies) : ~Parses(llmp.replies[i])

\* C15 witness: two failed attempts, then the last allowed attempt returns a
\* record.
C15_Witness ==
    /\ llmp # NoEntry /\ llmp.done /\ llmp.returned # NoEntry
    /\ Len(llmp.replies) = retry_attempts
    /\ llmp.replies[1].kind = "exception"
    /\ llmp.replies[2].kind = "text"

\* C28: within one extract_invoice_data call the retry delay elapses between
\* every two consecutive calls to the service, whatever made the earlier one
\* fail.
C28_DelayBetweenAttempts ==
    (llmp # NoEntry)
    => \A i \in 1..(Len(llmp.replies) - 1) : llmp.delays[i]

\* The same for the attempts that failed with an exception.
C28_DelayAfterException ==
    (llmp # NoEntry)
    => \A i \in 1..(Len(llmp.replies) - 1) :
          llmp.replies[i].kind = "exception" => llmp.delays[i]


(***************************************************************************)
(* CacheManager and FailedFilesManager used directly                       *)
(* (utils/cache_manager.py)                                                *)
(***************************************************************************)
MaxStore == 2       \* records a manager used directly may hold
MaxClock == 3       \* timestamps the clock hands out

\* (fields, category, deduction) triples handed to add_entry.
StoreEntries ==
    {[fields |-> DataComplete, category |-> "Professional Development",
      deduction |-> [WorkUsePercentage |-> 100, DeductibleAmount |-> 50000]],
     [fields |-> DataBlank, category |-> "Other",
      deduction |-> [WorkUsePercentage |-> 60, DeductibleAmount |-> 0]]}

IsManager(kind) == IF store = NoEntry THEN FALSE ELSE store.kind = kind

\* CacheManager(cache_path) / FailedFilesManager(failed_files_path) in a new
\* process: __init__ calls load().  The first process finds no file; a later
\* one finds the file the earlier one left, whatever became of that process.
NewManager ==
    /\ \E kind \in {"cache", "failures"} :
         IF IsManager(kind)
         THEN store' = [store EXCEPT !.mem = StoreLoad(store.file),
                                     !.op = [name |-> "load", args |-> NoEntry],
                                     !.reloaded = (store.op.name = "save")]
         ELSE /\ store = NoEntry
              /\ store' = [kind |-> kind, mem |-> <<>>, file |-> <<>>,
                           flushed |-> <<>>, clock |-> 0,
                           op |-> [name |-> "", args |-> NoEntry],
                           added |-> NoEntry, reloaded |-> FALSE]
    /\ UNCHANGED <<pipelineVars, cat, ded, mf, pdf, llmp, reloc, strat, retry>>

\* CacheManager.add_entry
CacheAddEntry ==
    /\ IsManager("cache")
    /\ Len(store.mem) < MaxStore
    /\ \E file_hash \in {"h1", "h2"}, e \in StoreEntries :
         store' = [store EXCEPT
                     !.mem = add_entry(@, "inv.pdf", file_hash, e.fields,
                                       e.category, e.deduction),
                     !.op = [name |-> "add_entry", args |-> NoEntry],
                     !.added = [file_hash |-> file_hash, entry |-> e],
                     !.reloaded = FALSE]
    /\ UNCHANGED <<pipelineVars, cat, ded, mf, pdf, llmp, reloc, strat, retry>>

\* save() of either manager.  The file is opened with 'w' and the list dumped
\* into it: a failure or the end of the process during the dump leaves a
\* truncated file.  flushed keeps what the last completed save wrote.
ManagerSave ==
    /\ store # NoEntry
    /\ \E outcome \in SaveOutcomes :
         store' = [store EXCEPT
                     !.file = StoreSave(@, store.mem, outcome),
                     !.flushed = IF outcome = "ok" THEN store.mem ELSE @,
                     !.op = [name |-> IF outcome = "ok" /\ store.op.name = "add_entry"
                                      THEN "save" ELSE "save_failed",
                             args |-> NoEntry],
                     !.reloaded = FALSE]
    /\ UNCHANGED <<pipelineVars, cat, ded, mf, pdf, llmp, reloc, strat, retry>>

\* FailedFilesManager.add_failure
FailureAdd ==
    /\ IsManager("failures")
    /\ store.clock < MaxClock
    /\ \E file_path \in {SourcePath("", "a.pdf"), SourcePath("", "b.pdf")},
          reason \in {"AI extraction failed", "No text content extracted"},
          attempt_count \in {1, 2} :
         /\ Len(add_failure(store.mem, file_path, file_path.name, reason,
                            attempt_count, store.clock + 1)) <= MaxStore
         /\ store' = [store EXCEPT
                        !.mem = add_failure(@, file_path, file_path.name,
                                            reason, attempt_count,
                                            store.clock + 1),
                        !.clock = @ + 1,
                        !.op = [name |-> "add_failure",
                                args |-> [file_path |-> file_path,
                                          error_reason |-> reason,
                                          attempt_count |-> attempt_count,
                                          now |-> store.clock + 1]],
                        !.reloaded = FALSE]
    /\ UNCHANGED <<pipelineVars, cat, ded, mf, pdf, llmp, reloc, strat, retry>>

\* FailedFilesManager.remove_failure
FailureRemove ==
    /\ IsManager("failures")
    /\ \E file_path \in {SourcePath("", "a.pdf"), SourcePath("", "b.pdf")} :
         store' = [store EXCEPT
                     !.mem = remove_failure(@, file_path),
                     !.op = [name |-> "remove_failure",
                             args |-> [file_path |-> file_path]],
                     !.reloaded = FALSE]
    /\ UNCHANGED <<pipelineVars, cat, ded, mf, pdf, llmp, reloc, strat, retry>>

SpecStore == InitIdle /\ [][\/ NewManager
                            \/ CacheAddEntry
                            \/ ManagerSave
                            \/ FailureAdd
                            \/ FailureRemove]_vars


IsPrefix(s, t) == Len(s) <= Len(t) /\ SubSeq(t, 1, Len(s)) = s

\* C16: whatever happens to the process, a save cut short included, the
\* store file holds a complete, loadable copy of the last flushed state (or
\* of the new one), and a load never loses records flushed earlier.
C16_CrashSafePersistence ==
    (store # NoEntry)
    => /\ store.file # Truncated
       /\ store.file = store.flushed
       /\ store.op.name = "load" => IsPrefix(store.flushed, store.mem)

\* C17: after add_entry(name, hash, fields, category, deduction), a save and
\* a fresh load, find_by_hash(hash) returns a record whose ExtractedData,
\* Category and Deduction are the ones just added, for any cache state.
C17_CacheRoundTrip ==
    (IsManager("cache") /\ store.reloaded)
    => LET rec == find_by_hash(store.mem, store.added.file_hash)
       IN  /\ rec # NoEntry
           /\ rec.ExtractedData = store.added.entry.fields
           /\ rec.Category = store.added.entry.category
           /\ rec.Deduction = store.added.entry.deduction

\* The round trip for a hash the cache held no record of.
C17_RoundTripOfNewHash ==
    (/\ IsManager("cache") /\ store.reloaded
     /\ Cardinality({i \in 1..Len(store.mem) :
                        store.mem[i].FileHash = store.added.file_hash}) = 1)
    => LET rec == find_by_hash(store.mem, store.added.file_hash)
       IN  /\ rec # NoEntry
           /\ rec.ExtractedData = store.added.entry.fields
           /\ rec.Category = store.added.entry.category
           /\ rec.Deduction = store.added.entry.deduction

OneRecordPerPath(entries) ==
    \A i, j \in 1..Len(entries) :
        entries[i].FilePath = entries[j].FilePath => i = j

\* C18: after any sequence of add_failure and remove_failure calls the
\* tracker holds at most one record per path; an add_failure for a path that
\* has a record replaces AttemptCount, ErrorReason and LastAttempt of that
\* record in place and leaves its FirstAttempt and every other record as
\* they were.
C18_OneRecordPerPath ==
    [][(IF store = NoEntry \/ store' = NoEntry THEN FALSE
        ELSE store.kind = "failures" /\ store'.kind = "failures")
       => /\ OneRecordPerPath(store'.mem)
          /\ (store'.op.name = "add_failure"
                /\ find_by_path(store.mem, store'.op.args.file_path) # NoEntry)
             => /\ Len(store'.mem) = Len(store.mem)
                /\ \A i \in 1..Len(store.mem) :
                     IF store.mem[i].FilePath = store'.op.args.file_path
                     THEN store'.mem[i] =
                            [store.mem[i] EXCEPT
                               !.AttemptCount = store'.op.args.attempt_count,
                               !.ErrorReason = store'.op.args.error_reason,
                               !.LastAttempt = store'.op.args.now]
                     ELSE store'.mem[i] = store.mem[i]]_vars

\* C18 witness: a repeated add_failure for the first of two recorded paths.
C18_Witness ==
    /\ IsManager("failures")
    /\ store.op.name = "add_failure"
    /\ Len(store.mem) = 2
    /\ store.mem[1].FilePath = store.op.args.file_path
    /\ store.mem[1].FirstAttempt = 1
    /\ store.mem[1].LastAttempt = 3
    /\ store.mem[1].AttemptCount = 2


(***************************************************************************)
(* Relocation: move_processed_file and move_non_invoice on a destination   *)
(* tree that already holds files.                                          *)
(***************************************************************************)
MaxNames == 2      \* names already in use per destination folder
MaxMoves == 2      \* relocations followed

\* A variant of the duplicate-name loop that never probes.
FreeCounter_first(present, dest_path, counter) == counter

\* `while dest_path.exists()`: the first counter, from `counter` on, whose
\* name is not in use (0 stands for the unsuffixed file_path.name).
RECURSIVE FreeCounter(_, _, _)
FreeCounter(present, dest_path, counter) ==
    IF \E e \in present : e.path = [dest_path EXCEPT !.counter = counter]
    THEN FreeCounter(present, dest_path, counter + 1)
    ELSE counter

\* Names that can be in use before the run: those of the Non-Invoice folder
\* and of Other/Unknown.
DestPaths ==
    {move_non_invoice(SourcePath("", "inv.pdf"), k, TRUE) :
        k \in 0..(MaxNames - 1)}
    \cup {move_processed_file(SourcePath("", "inv.pdf"), "Other", <<>>, k,
                                TRUE) : k \in 0..(MaxNames - 1)}

\* file_path.rename(dest_path) and the return: on POSIX a rename onto an
\* existing name replaces that file; a failed rename changes nothing.
Relocated(r, source, returned, ok, status, normal) ==
    LET performed == returned.folder = "Processed"
    IN  [present |-> IF performed
                     THEN {e \in r.present : e.path # returned}
                          \cup {[path |-> returned, file |-> r.moves + 1]}
                     ELSE r.present,
         moves |-> r.moves + 1,
         last |-> [source |-> source, returned |-> returned, ok |-> ok,
                   in_place |-> ~performed, status |-> status,
                   normal |-> normal]]

\* The destination tree as the run finds it.
RelocOpen ==
    /\ reloc = NoEntry
    /\ \E taken \in SUBSET DestPaths :
          reloc' = [present |-> {[path |-> p, file |-> 0] : p \in taken},
                    moves |-> 0, last |-> NoEntry]
    /\ UNCHANGED <<pipelineVars, cat, ded, mf, pdf, llmp, store, strat, retry>>

\* move_processed_file(file_path, category, invoice_date)
RelocMoveProcessed ==
    /\ reloc # NoEntry
    /\ reloc.moves < MaxMoves
    /\ \E file_path \in Paths, category \in {"Other"},
          invoice_date \in {<<>>, S_Date}, ok \in BOOLEAN :
          LET dest_path == move_processed_file(file_path, category,
                                               invoice_date, 0, TRUE)
              counter == FreeCounter(reloc.present, dest_path, 0)
          IN  reloc' = Relocated(reloc, file_path,
                                 move_processed_file(file_path, category,
                                                     invoice_date, counter,
                                                     ok),
                                 ok, "", "")
    /\ UNCHANGED <<pipelineVars, cat, ded, mf, pdf, llmp, store, strat, retry>>

\* move_non_invoice(file_path)
RelocMoveNonInvoice ==
    /\ reloc # NoEntry
    /\ reloc.moves < MaxMoves
    /\ \E file_path \in Paths, ok \in BOOLEAN :
          LET dest_path == move_non_invoice(file_path, 0, TRUE)
              counter == FreeCounter(reloc.present, dest_path, 0)
          IN  reloc' = Relocated(reloc, file_path,
                                 move_non_invoice(file_path, counter, ok),
                                 ok, "", "")
    /\ UNCHANGED <<pipelineVars, cat, ded, mf, pdf, llmp, store, strat, retry>>

\* process_file on empty stores, the destination tree as it stands: `normal`
\* is the status of the same call when the rename succeeds.
RelocProcessFile ==
    /\ reloc # NoEntry
    /\ reloc.moves < MaxMoves
    /\ \E file_path \in Paths, s \in Scenarios :
       \E free \in process_file(<<>>, <<>>, file_path, "h1", FALSE, s.ext,
                                s.llm, 0, TRUE) :
          LET counter == FreeCounter(reloc.present, free.result.MovedTo, 0)
          IN  \E o \in process_file(<<>>, <<>>, file_path, "h1", FALSE,
                                    s.ext, s.llm, counter, s.move_ok) :
                 reloc' = Relocated(reloc, file_path, o.result.MovedTo,
                                    s.move_ok, o.result.ProcessingStatus,
                                    free.result.ProcessingStatus)
    /\ UNCHANGED <<pipelineVars, cat, ded, mf, pdf, llmp, store, strat, retry>>

SpecReloc == InitIdle /\ [][\/ RelocOpen
                            \/ RelocMoveProcessed
                            \/ RelocMoveNonInvoice
                            \/ RelocProcessFile]_vars

\* The names of the destination folder of `dest_path` that are in use.
InUse(present, dest_path, counter) ==
    \E e \in present : e.path = [dest_path EXCEPT !.counter = counter]

\* C19: a relocation replaces no file of the destination tree: the name it
\* writes is file_path.name or stem_k for the least k such that the name and
\* stem_1 .. stem_(k-1) are all in use; a rename that fails returns the
\* original path, leaves the file and the tree as they were, and process_file
\* ends with the status it has when the rename succeeds.
C19_RelocationNeverOverwrites ==
    [][(reloc # NoEntry)
       => LET move == reloc'.last
          IN  /\ reloc.present \subseteq reloc'.present
              /\ ~move.in_place
                 => /\ ~InUse(reloc.present, move.returned,
                              move.returned.counter)
                    /\ \A k \in 0..(move.returned.counter - 1) :
                          InUse(reloc.present, move.returned, k)
              /\ ~move.ok
                 => /\ move.returned = move.source
                    /\ move.in_place
                    /\ reloc'.present = reloc.present
              /\ move.status = move.normal]_vars

\* C19 witness: a process_file call found the name and stem_1 in use and moved
\* the file to stem_2, and another one kept its file in place with 'Success'.
C19_Witness ==
    /\ reloc # NoEntry
    /\ reloc.last # NoEntry
    /\ ~reloc.last.ok
    /\ reloc.last.status = "Success"
    /\ \E e \in reloc.present : e.file = 1 /\ e.path.counter = 2


(***************************************************************************)
(* RuleLoader and the construction of ATOStrategy                          *)
(* (tax/rules/rule_loader.py, tax/strategies/ato_strategy.py)              *)
(***************************************************************************)
\* Category rules as JSON gives them.  required_documentation is only ever
\* looked at by isinstance, so the model keeps its Python type.
RuleFull ==
    [claim_method |-> "Full Deduction", work_use_applicable |-> FALSE,
     ato_reference |-> "D4", required_documentation |-> [type |-> "list"]]
RuleThreshold ==
    [claim_method |-> "Immediate Deduction", work_use_applicable |-> TRUE,
     ato_reference |-> "D5", required_documentation |-> [type |-> "list"],
     threshold |-> 30000, depreciation_years |-> 2]
RuleNoReference ==
    [claim_method |-> "Immediate Deduction", work_use_applicable |-> TRUE,
     required_documentation |-> [type |-> "list"], threshold |-> 30000]
RuleDocumentationStr ==
    [claim_method |-> "Full Deduction", work_use_applicable |-> FALSE,
     ato_reference |-> "D4", required_documentation |-> [type |-> "str"]]

\* Rule tables: a valid one, one whose second category lacks a required key,
\* one whose first category has a field of the wrong type, one without
\* 'strategy_name', and the empty dictionary.
StrategyTables ==
    {[strategy_name |-> "ATO",
      categories |-> [c \in {"Professional Development",
                             "Computer Equipment"} |->
                         IF c = "Professional Development"
                         THEN t[1] ELSE t[2]]] :
        t \in {<<RuleFull, RuleThreshold>>, <<RuleFull, RuleNoReference>>,
               <<RuleDocumentationStr, RuleThreshold>>}}
    \cup {[categories |-> [c \in {"Computer Equipment"} |-> RuleThreshold]],
          <<>>}

\* What a rules path can hold: no file, a file that is not JSON, a table.
NotJson == [JSONDecodeError |-> TRUE]
RuleFiles == StrategyTables \cup {NoEntry, NotJson}
CustomPath == "rules.json"
DefaultPath == "ato_rules.json"    \* get_default_ato_rules_path()

\* RuleLoader._validate_category: the errors, as a set of messages.
validate_category(category_rules) ==
    {"Missing field '" \o field \o "'" :
        field \in {"claim_method", "work_use_applicable", "ato_reference",
                   "required_documentation"} \ DOMAIN category_rules}
    \cup (IF "work_use_applicable" \in DOMAIN category_rules
             /\ category_rules.work_use_applicable \notin BOOLEAN
          THEN {"'work_use_applicable' must be boolean"} ELSE {})
    \cup (IF "threshold" \in DOMAIN category_rules
             /\ category_rules.threshold \notin Int
          THEN {"'threshold' must be number or null"} ELSE {})
    \cup (IF "depreciation_years" \in DOMAIN category_rules
             /\ category_rules.depreciation_years \notin Int
          THEN {"'depreciation_years' must be number or null"} ELSE {})
    \cup (IF "required_documentation" \in DOMAIN category_rules
             /\ category_rules.required_documentation.type # "list"
          THEN {"'required_documentation' must be a list"} ELSE {})

\* RuleLoader.validate_rules: (is_valid, errors)
validate_rules(rules) ==
    LET errors ==
            {"Missing required field: " \o field :
                field \in {"strategy_name", "categories"} \ DOMAIN rules}
            \cup (IF "categories" \in DOMAIN rules
                  THEN UNION {validate_category(rules.categories[c]) :
                                c \in DOMAIN rules.categories}
                  ELSE {})
    IN  [is_valid |-> errors = {}, errors |-> errors]

\* RuleLoader.load_rules(rules_path) on a loader whose _cache is `loaded` and
\* a disk whose files are `disk`: the rules, or NoEntry for None.
load_rules(loaded, rules_path, disk) ==
    IF rules_path \in DOMAIN loaded THEN loaded[rules_path]
    ELSE IF disk[rules_path] = NoEntry THEN NoEntry      \* file not found
    ELSE IF disk[rules_path] = NotJson THEN NoEntry      \* JSONDecodeError
    ELSE IF ~validate_rules(disk[rules_path]).is_valid THEN NoEntry
    ELSE disk[rules_path]

\* ATOStrategy.__init__(rules, rules_path): self.rules.  The RuleLoader is
\* created by the constructor, so its _cache is empty.
ATOStrategy_init(rules, rules_path, disk) ==
    LET loaded == IF rules # NoEntry /\ rules # <<>> THEN rules
                  ELSE IF rules_path # ""
                  THEN load_rules(<<>>, rules_path, disk)
                  ELSE load_rules(<<>>, DefaultPath, disk)
    IN  IF loaded = NoEntry THEN <<>> ELSE loaded

\* ATOStrategy(rules=table)
StratFromDict ==
    /\ \E table \in StrategyTables,
          disk \in [{CustomPath, DefaultPath} -> RuleFiles] :
          strat' = [via |-> "rules", table |-> table, disk |-> disk,
                    rules |-> ATOStrategy_init(table, "", disk),
                    deduction |-> NoEntry]
    /\ UNCHANGED <<pipelineVars, cat, ded, mf, pdf, llmp, store, reloc, retry>>

\* ATOStrategy(rules_path=CustomPath)
StratFromPath ==
    /\ \E disk \in [{CustomPath, DefaultPath} -> RuleFiles] :
          strat' = [via |-> "rules_path", table |-> disk[CustomPath],
                    disk |-> disk,
                    rules |-> ATOStrategy_init(NoEntry, CustomPath, disk),
                    deduction |-> NoEntry]
    /\ UNCHANGED <<pipelineVars, cat, ded, mf, pdf, llmp, store, reloc, retry>>

\* ATOStrategy()
StratDefault ==
    /\ \E disk \in [{CustomPath, DefaultPath} -> RuleFiles] :
          strat' = [via |-> "default", table |-> disk[DefaultPath],
                    disk |-> disk,
                    rules |-> ATOStrategy_init(NoEntry, "", disk),
                    deduction |-> NoEntry]
    /\ UNCHANGED <<pipelineVars, cat, ded, mf, pdf, llmp, store, reloc, retry>>

\* strategy.calculate_deduction({'total': total}, category, wup)
StratCalculate ==
    /\ strat # NoEntry
    /\ \E total \in {2999, 30001}, category \in DeductionCategories,
          wup \in {60} :
         \E out \in ATOStrategy_calculate_deduction(strat.rules, total,
                                                    category, wup) :
            strat' = [strat EXCEPT !.deduction =
                         [total |-> total, category |-> category,
                          wup |-> wup, out |-> out]]
    /\ UNCHANGED <<pipelineVars, cat, ded, mf, pdf, llmp, store, reloc, retry>>

SpecStrat == InitIdle /\ [][\/ StratFromDict
                            \/ StratFromPath
                            \/ StratDefault
                            \/ StratCalculate]_vars

\* A table one of whose categories fails validation.
CategoryFailsValidation(table) ==
    /\ "categories" \in DOMAIN table
    /\ \E c \in DOMAIN table.categories :
          validate_category(table.categories[c]) # {}

\* C20: when a category of the rule table handed to ATOStrategy, as a rules
\* dictionary or as the file of a rules path, fails validation, every
\* calculate_deduction of that strategy returns 'Manual Review Required'.
C20_InvalidTableRejectedWholesale ==
    (/\ strat # NoEntry
     /\ strat.deduction # NoEntry
     /\ CategoryFailsValidation(strat.table))
    => strat.deduction.out.ClaimMethod.label = "Manual Review Required"

\* The same for the tables that reach the strategy through a file.
C20_InvalidFileRejectedWholesale ==
    (/\ strat # NoEntry
     /\ strat.deduction # NoEntry
     /\ strat.via # "rules"
     /\ CategoryFailsValidation(strat.table))
    => strat.deduction.out.ClaimMethod.label = "Manual Review Required"


(***************************************************************************)
(* One path processed again and again, over several runs.                  *)
(***************************************************************************)
\* The constructors of the first run: no store file yet.
RetryOpen ==
    /\ retry = NoEntry
    /\ retry' = [cache |-> <<>>, failed_files |-> <<>>, cacheFile |-> <<>>,
                 failedFile |-> <<>>, failures |-> 0, last |-> NoEntry]
    /\ UNCHANGED <<pipelineVars, cat, ded, mf, pdf, llmp, store, reloc, strat>>

\* process_file on the path, whose content has hash h1.
RetryProcess ==
    /\ retry # NoEntry
    /\ retry.failures <= max_retry_attempts     \* the history stops there
    /\ \E rp \in BOOLEAN, s \in Scenarios :
       \E out \in process_file(retry.cache, retry.failed_files,
                               SourcePath("", "inv.pdf"), "h1", rp, s.ext,
                               s.llm, s.taken, s.move_ok) :
          /\ Len(out.cache) <= MaxCache
          /\ retry' =
               [retry EXCEPT
                  !.cache = out.cache,
                  !.failed_files = out.failed_files,
                  !.failures =
                      IF out.result.ProcessingStatus \in FailedStatuses
                      THEN @ + 1 ELSE @,
                  !.last = [status |-> out.result.ProcessingStatus,
                            extract_calls |-> out.extract_calls,
                            failed_entry |->
                                find_by_path(retry.failed_files,
                                             SourcePath("", "inv.pdf")),
                            failed_before |-> retry.failed_files]]
    /\ UNCHANGED <<pipelineVars, cat, ded, mf, pdf, llmp, store, reloc, strat>>

\* run() saves both stores and returns; the constructors of the next run
\* load them.
RetryNewRun ==
    /\ retry # NoEntry
    /\ retry.last # NoEntry
    /\ \E so1 \in SaveOutcomes, so2 \in SaveOutcomes :
          LET c == StoreSave(retry.cacheFile, retry.cache, so1)
              ff == StoreSave(retry.failedFile, retry.failed_files, so2)
          IN  retry' = [retry EXCEPT !.cacheFile = c, !.failedFile = ff,
                                     !.cache = StoreLoad(c),
                                     !.failed_files = StoreLoad(ff),
                                     !.last = NoEntry]
    /\ UNCHANGED <<pipelineVars, cat, ded, mf, pdf, llmp, store, reloc, strat>>

SpecRetry == InitIdle /\ [][RetryOpen \/ RetryProcess \/ RetryNewRun]_vars

\* C23 as stated: every AttemptCount is within 1..max_retry_attempts and the
\* path has at most max_retry_attempts 'Failed' calls in total.
C23_AttemptsBoundedInTotal ==
    (retry # NoEntry)
    => /\ \A i \in 1..Len(retry.failed_files) :
             retry.failed_files[i].AttemptCount \in 1..max_retry_attempts
       /\ retry.failures <= max_retry_attempts

\* C23 as the code has it: every AttemptCount is within
\* 1..max_retry_attempts; a call on a path whose record is at the ceiling
\* attempts nothing and leaves the failure records as they were; a call that
\* attempts finds a count below the ceiling.  The number of 'Failed' calls of
\* a path is bounded only between two removals of its record.
C23_CountWithinCeiling ==
    (retry # NoEntry)
    => /\ \A i \in 1..Len(retry.failed_files) :
             retry.failed_files[i].AttemptCount \in 1..max_retry_attempts
       /\ (retry.last # NoEntry /\ retry.last.failed_entry # NoEntry)
          => IF retry.last.failed_entry.AttemptCount >= max_retry_attempts
             THEN /\ retry.last.extract_calls = 0
                  /\ retry.failed_files = retry.last.failed_before
             ELSE retry.last.status \in FailedStatuses
                  => find_by_path(retry.failed_files,
                                  SourcePath("", "inv.pdf")).AttemptCount
                       = retry.last.failed_entry.AttemptCount + 1

\* C23 witness: a call on the path whose record had reached the ceiling.
C23_Witness ==
    /\ retry # NoEntry
    /\ retry.last # NoEntry
    /\ retry.last.failed_entry # NoEntry
    /\ retry.last.failed_entry.AttemptCount = max_retry_attempts
    /\ retry.last.status = "Skipped (Max retries exceeded)"


(***************************************************************************)
(* TaxCalculator on catalog entries  (tax/tax_calculator.py,               *)
(* catalog/catalog_loader.py)                                              *)
(***************************************************************************)
\* CatalogLoader._parse_csv_row, for the fields the calculation reads.  A CSV
\* cell is text: [cents |-> n] stands for text that float() reads as n/100,
\* [text |-> ...] for text on which float() raises ValueError.
parse_csv_row(row) ==
    [FileName |-> Get(row, "FileName", ""),
     Category |-> Get(row, "Category", ""),
     TotalAmount |-> IF "TotalAmount" \in DOMAIN row
                        /\ "cents" \in DOMAIN row.TotalAmount
                     THEN row.TotalAmount.cents ELSE 0]

\* ATOStrategy.calculate_deduction: float(invoice_data.get('total', 0))
invoice_total(invoice_data) == Get(invoice_data, "total", 0)

\* One iteration of TaxCalculator.calculate_deductions: {**entry, **deduction}
\* with the deduction of the strategy as format_deduction_result builds it.
tax_entry(rules, entry, wup) ==
    LET category == Get(entry, "Category", "Other")
        total_amount == invoice_total(entry)
    IN  {[k \in DOMAIN entry \cup DOMAIN d \cup {"Category", "TotalAmount"} |->
            CASE k = "Category" -> category
              [] k = "TotalAmount" -> total_amount
              [] k \in DOMAIN d -> d[k]
              [] OTHER -> entry[k]] :
         d \in ATOStrategy_calculate_deduction(rules, total_amount, category,
                                               wup)}

\* CatalogLoader reads one row of the catalog.
TaxLoadRow ==
    /\ \E category \in DeductionCategories,
          cell \in {[cents |-> n] : n \in Totals} \cup {[text |-> "n/a"]} :
          ded' = [engine |-> "CatalogLoader",
                  entry |-> parse_csv_row([FileName |-> "inv.pdf",
                                           Category |-> category,
                                           TotalAmount |-> cell])]
    /\ UNCHANGED <<pipelineVars, cat, mf, pdf, unitVars>>

\* TaxCalculator(ATOStrategy(rules), wup).calculate_deductions([entry])
TaxCalculate ==
    /\ ded # NoEntry
    /\ ded.engine = "CatalogLoader"
    /\ \E rules \in RuleTables, wup \in WorkUses :
       \E out \in tax_entry(rules, ded.entry, wup) :
          ded' = [engine |-> "TaxCalculator", rules |-> rules,
                  entry |-> ded.entry, wup |-> wup, out |-> out]
    /\ UNCHANGED <<pipelineVars, cat, mf, pdf, unitVars>>

SpecTax == InitIdle /\ [][TaxLoadRow \/ TaxCalculate]_vars

\* C26: the deduction of a catalog entry is the one the strategy computes
\* from the entry's TotalAmount, and the output entry keeps that TotalAmount.
C26_DeductionFromCatalogTotal ==
    (ded # NoEntry /\ ded.engine = "TaxCalculator")
    => /\ ded.out.TotalAmount = ded.entry.TotalAmount
       /\ \E d \in ATOStrategy_calculate_deduction(ded.rules,
                                                   ded.entry.TotalAmount,
                                                   ded.entry.Category,
                                                   ded.wup) :
             /\ ded.out.DeductibleAmount = d.DeductibleAmount
             /\ ded.out.ClaimMethod = d.ClaimMethod


(***************************************************************************)
(* A later run over a tree an earlier run relocated files into.            *)
(* output_folder is invoice_folder / "Processed", and get_invoice_files    *)
(* scans invoice_folder recursively, so a later run finds those files.     *)
(***************************************************************************)
\* The earlier run: process_file on a file of the invoice folder, which it
\* relocates; the stores are saved, the later run loads them.
RerunEarlier ==
    /\ reloc # NoEntry
    /\ reloc.moves = 0
    /\ \E file_path \in Paths,
          s \in {x \in Scenarios : x.move_ok /\ x.taken = 0} :
       \E free \in process_file(<<>>, <<>>, file_path, "h1", FALSE, s.ext,
                                s.llm, 0, TRUE) :
          LET counter == FreeCounter(reloc.present, free.result.MovedTo, 0)
          IN  \E o \in process_file(<<>>, <<>>, file_path, "h1", FALSE,
                                    s.ext, s.llm, counter, TRUE) :
                 /\ o.result.MovedTo.folder = "Processed"
                 /\ reloc' = [cache |-> o.cache, scenario |-> s,
                              rerun |-> FALSE]
                             @@ Relocated(reloc, file_path,
                                          o.result.MovedTo, TRUE,
                                          o.result.ProcessingStatus,
                                          free.result.ProcessingStatus)
    /\ UNCHANGED <<pipelineVars, cat, ded, mf, pdf, llmp, store, strat, retry>>

\* The later run: rglob returns the relocated file, whose content, and so
\* whose hash, text and extraction, are those of the earlier run.  (Files
\* whose name already carries a suffix are left out of the model.)
RerunLater ==
    /\ reloc # NoEntry
    /\ "rerun" \in DOMAIN reloc
    /\ ~reloc.rerun
    /\ \E e \in {x \in reloc.present : x.file >= 1 /\ x.path.counter = 0},
          rp \in BOOLEAN, move_ok \in BOOLEAN :
       LET s == reloc.scenario
       IN  \E free \in process_file(reloc.cache, <<>>, e.path, "h1", rp,
                                    s.ext, s.llm, 0, TRUE) :
             LET counter == FreeCounter(reloc.present, free.result.MovedTo,
                                        0)
             IN  \E o \in process_file(reloc.cache, <<>>, e.path, "h1", rp,
                                       s.ext, s.llm, counter, move_ok) :
                    /\ Len(o.cache) <= MaxCache
                    /\ reloc' =
                         [reloc EXCEPT
                            !.present =
                                (@ \ {e})
                                \cup {[path |-> o.result.FilePath,
                                       file |-> e.file]},
                            !.moves = @ + 1,
                            !.rerun = TRUE,
                            !.cache = o.cache,
                            !.last =
                                [source |-> e.path,
                                 returned |-> o.result.FilePath,
                                 ok |-> move_ok,
                                 in_place |-> o.result.FilePath = e.path,
                                 status |-> o.result.ProcessingStatus,
                                 normal |-> free.result.ProcessingStatus]]
    /\ UNCHANGED <<pipelineVars, cat, ded, mf, pdf, llmp, store, strat, retry>>

SpecRerun == InitIdle /\ [][RelocOpen \/ RerunEarlier \/ RerunLater]_vars

\* C27: a file that an earlier run relocated is where that run put it, under
\* the name that run gave it, after a later run with the same configuration,
\* with or without reprocess.
C27_RelocationStableAcrossRuns ==
    (reloc # NoEntry /\ "rerun" \in DOMAIN reloc /\ reloc.rerun)
    => /\ reloc.last.returned = reloc.last.source
       /\ reloc.last.in_place

\* The same for the relocated files whose hash the later run finds cached.
C27_CachedFilesStay ==
    (/\ reloc # NoEntry /\ "rerun" \in DOMAIN reloc /\ reloc.rerun
     /\ reloc.last.status = "Cached (Duplicate)")
    => reloc.last.returned = reloc.last.source


(***************************************************************************)
(* The acceptance test of every extraction method  (extractors/*.py)       *)
(***************************************************************************)
\* _extract_with_* of PDFExtractor: the length each compares the stripped
\* text with.
PdfMethods ==
    {[extractor |-> "pdf", name |-> n, kind |-> "native", minimum |-> 50] :
        n \in {"PyMuPDF", "pdfplumber", "pypdf"}}
    \cup {[extractor |-> "pdf", name |-> n, kind |-> "ocr", minimum |-> 50] :
            n \in {"EasyOCR", "Tesseract"}}

\* _extract_docx_with_python_docx, _extract_word_with_com,
\* _extract_xlsx_with_openpyxl, _extract_excel_with_com
DocumentMethods ==
    {[extractor |-> "document", name |-> n, kind |-> "native",
      minimum |-> 10] :
        n \in {"python-docx", "Word COM", "openpyxl", "Excel COM"}}

\* _extract_with_easyocr, _extract_with_tesseract of ImageExtractor
ImageMethods ==
    {[extractor |-> "image", name |-> n, kind |-> "ocr", minimum |-> 20] :
        n \in {"EasyOCR", "Tesseract"}}

\* extract_from_eml, _extract_msg_with_library, _extract_msg_with_com
EmailMethods ==
    {[extractor |-> "email", name |-> n, kind |-> "email", minimum |-> 20] :
        n \in {"Python email library", "extract-msg library", "Outlook COM"}}

\* if text and len(text.strip()) > minimum: return text, True
\* and (None, False) otherwise, an exception included.
method_result(minimum, outcome) ==
    IF ~outcome.raised /\ outcome.len > minimum
    THEN [len |-> outcome.len, success |-> TRUE]
    ELSE [len |-> -1, success |-> FALSE]

\* One method is invoked on one file, and process_file looks at the text its
\* extractor hands back: `not text or len(text.strip()) < 10` is no text.
MethodCall ==
    /\ \E m \in PdfMethods \cup DocumentMethods \cup ImageMethods
                \cup EmailMethods,
          outcome \in {[raised |-> TRUE, len |-> 0]}
                      \cup {[raised |-> FALSE, len |-> n] :
                              n \in {0, 9, 10, 11, 20, 21, 50, 51}} :
         LET r == method_result(m.minimum, outcome)
         IN  pdf' = [m |-> m, outcome |-> outcome, r |-> r,
                     no_text |-> (r.len = -1 \/ r.len < 10)]
    /\ UNCHANGED <<pipelineVars, cat, ded, mf, unitVars>>

SpecMethods == InitIdle /\ [][MethodCall]_vars

\* C29: a method's result is accepted only if the stripped text is longer
\* than the minimum of the method's class: 50 characters for a
\* document-native reader (PDF text readers, Word and Excel readers), 20 for
\* an OCR method or an email parser; the orchestrator then treats text
\* shorter than 10 characters as no text.
C29_AcceptanceThresholds ==
    (pdf # NoEntry)
    => /\ pdf.r.success
            => pdf.outcome.len > (IF pdf.m.kind = "native" THEN 50 ELSE 20)
       /\ (pdf.r.success /\ pdf.r.len < 10) => pdf.no_text

\* The minimum of a class as the lower bound of what is rejected: text no
\* longer than it is rejected, text longer than it is accepted.
C29_ThresholdsExact ==
    (pdf # NoEntry /\ ~pdf.outcome.raised)
    => (pdf.r.success
          <=> pdf.outcome.len > (IF pdf.m.kind = "native" THEN 50 ELSE 20))

\* The part that holds: PDF text readers accept above 50 only, image OCR and
\* email parsers above 20 only.
C29_PdfTextImageEmail ==
    (/\ pdf # NoEntry
     /\ \/ pdf.m.extractor \in {"image", "email"}
        \/ pdf.m.extractor = "pdf" /\ pdf.m.kind = "native")
    => (pdf.r.success
          <=> /\ ~pdf.outcome.raised
              /\ pdf.outcome.len > (IF pdf.m.kind = "native" THEN 50 ELSE 20))


(***************************************************************************)
(* The deduction engines on totals finer than a cent.                      *)
(* float(invoice_data.get('total', 0)) is any number the record carries;   *)
(* here money is an integer number of 1/scale cents.                       *)
(***************************************************************************)
\* round(x, 2) of num/den units: the nearest whole numbers of cents, in units.
round2(num, den, scale) == {scale * c : c \in RoundSet(num, den * scale)}

\* DeductibleAmount of ATOStrategy.calculate_deduction
strategy_deductible(rules, total_amount, category, wup, scale) ==
    LET rule == get_category_rule(rules, category)
        work_use_amount == round2(total_amount * wup, 100, scale)
    IN  IF rule = NoEntry THEN {0}
        ELSE IF ~Get(rule, "work_use_applicable", TRUE) THEN {total_amount}
        ELSE IF "threshold" \in DOMAIN rule
                  /\ total_amount > rule.threshold * scale
        THEN UNION {round2(w, Get(rule, "depreciation_years", 3), scale) :
                      w \in work_use_amount}
        ELSE work_use_amount

\* DeductibleAmount of DeductionCalculator.calculate_deduction
calculator_deductible(total, category, scale) ==
    LET rule == get_category_rule(DeductionCalculatorRules, category)
    IN  IF rule = NoEntry THEN {0}
        ELSE IF ~Get(rule, "work_use_applicable", TRUE) THEN {total}
        ELSE IF "threshold" \in DOMAIN rule /\ total > rule.threshold * scale
        THEN round2(total * work_use_percentage,
                    100 * rule.depreciation_years, scale)
        ELSE round2(total * work_use_percentage, 100, scale)

\* Either engine is called on a total given in tenths of a cent.
FineDeduction ==
    /\ \E total \in {0, 10, 12340, 12345, 29999, 300000, 300005, 300080,
                     1000100, 1000105},
          category \in DeductionCategories :
         \/ \E rules \in RuleTables, wup \in WorkUses :
              \E a \in strategy_deductible(rules, total, category, wup, 10) :
                 ded' = [engine |-> "ATOStrategy", rules |-> rules,
                         total |-> total, category |-> category,
                         wup |-> wup, scale |-> 10, DeductibleAmount |-> a]
         \/ \E a \in calculator_deductible(total, category, 10) :
                 ded' = [engine |-> "DeductionCalculator",
                         rules |-> DeductionCalculatorRules,
                         total |-> total, category |-> category,
                         wup |-> work_use_percentage, scale |-> 10,
                         DeductibleAmount |-> a]
    /\ UNCHANGED <<pipelineVars, cat, mf, pdf, unitVars>>

SpecFine == InitIdle /\ [][FineDeduction]_vars

\* C30: every DeductibleAmount the deduction engine returns has at most two
\* decimal places (is a whole number of cents), in every branch and for
\* every total, totals with more than two decimal places included.
C30_TwoDecimalPlaces ==
    (ded # NoEntry) => ded.DeductibleAmount % ded.scale = 0

\* The same outside the full-deduction branch.
C30_RoundedBranches ==
    (/\ ded # NoEntry
     /\ Get(get_category_rule(ded.rules, ded.category),
            "work_use_applicable", TRUE))
    => ded.DeductibleAmount % ded.scale = 0

\* On whole cents the amounts are those of the engines as modelled in cents.
C30_AgreesOnWholeCents ==
    (ded # NoEntry /\ ded.total % ded.scale = 0)
    => \E out \in (IF ded.engine = "ATOStrategy"
                   THEN ATOStrategy_calculate_deduction(
                            ded.rules, ded.total \div ded.scale,
                            ded.category, ded.wup)
                   ELSE DeductionCalculator_calculate_deduction(
                            ded.total \div ded.scale, ded.category)) :
          out.DeductibleAmount * ded.scale = ded.DeductibleAmount

====
